---- MODULE Spec2Model ----
(***************************************************************************)
(* Odds collection of the bookmakers module: BookmakersService             *)
(* (fetchOddsFromBookmaker, getAllBookmakerOdds, checkRateLimit) over      *)
(* CacheService (get, set, wrap) and the Redis-backed cache store.         *)
(*                                                                         *)
(* Each asynchronous call is a process that advances one await at a time;  *)
(* the code between two awaits runs as one atomic step, as it does on the  *)
(* Node.js event loop.  Prices are in hundredths (2.5 is 250), times in    *)
(* milliseconds.                                                           *)
(***************************************************************************)
EXTENDS Integers, Sequences, FiniteSets, TLC

VARIABLES
    now,               \* Date.now()
    cacheUp,           \* whether the cache store answers (FALSE: get and set reject)
    store,             \* the cache store: key -> entry
    rateLimitTracker,  \* BookmakersService.rateLimitTracker: name -> timestamps
    calls,             \* the calls in flight: id -> call record
    nextId,            \* the id of the next call
    everDown,          \* history: the cache store was unavailable at some point
    computeCount,      \* history: key -> computations (upstream fetches, fn calls) that answered
    collectLog,        \* history: the start times of the collect calls of the last minute
    wraps,             \* the CacheService.wrap calls in flight: id -> record
    failures,          \* history: the calls of fetchOddsFromAPI that threw
    norm,              \* the call of the name normaliser under way
    agg,               \* the aggregation under way
    view,              \* the statistics view last read
    auth,              \* the stored users and the register calls in flight
    acct,              \* the accounts, the tokens issued and the authenticated requests
    aus,               \* the views getAggregatedAustralianOdds returned
    retry              \* the call of CacheService.withRetry under way

vars == <<now, cacheUp, store, rateLimitTracker, calls, nextId, everDown,
          computeCount, collectLog, wraps, failures, norm, agg, view, auth, acct, aus, retry>>

\* the state of the odds collection, and the state of the other services
oddsVars == <<now, cacheUp, store, rateLimitTracker, calls, nextId, everDown,
              computeCount, collectLog, wraps, failures>>
idleVars == <<norm, agg, view, auth, acct, aus, retry>>

----------------------------------------------------------------------------
(* Bounds of the model *)

\* calls (fetch, wrap) issued in one behaviour
MaxCalls == 2
\* calls (fetch, wrap) in flight at the same time
MaxInFlight == 2
\* the runs of one collect call that are past their cache read and have not
\* returned, at the same time
MaxActive == 2
\* calls of fetchOddsFromAPI that throw in one behaviour
MaxFailures == 2
\* collect calls issued one after the other in a behaviour of SpecCollect
MaxCollects == 3
\* the clock stops advancing here
MaxTime == 60000
\* The rate limits of the loaded configurations (60 and 30 requests per
\* minute), scaled down so that a window fills within MaxCalls calls.
LimitBet365 == 2
LimitWilliamHill == 1

\* the longest of the names enumerated character by character
MaxNameLen == 3
\* the quotes of the second source, counted from its first, that the remote
\* normaliser may name differently
MaxRenamed == 2
\* the quotes of a group whose quotes take every price
MaxQuotes == 3
\* register calls issued in one behaviour
MaxRegisters == 2
\* the largest retries argument of withRetry
MaxRetries == 4
\* runs of getAggregatedAustralianOdds over the same upstream data
MaxRuns == 2
\* logins and authenticated requests made in one behaviour
MaxTokens == 2
MaxRequests == 2
\* calls of deactivate, activate and remove in one behaviour
MaxUserCalls == 2
\* calls of the users controller's create, update and remove in one
\* behaviour of the registration
MaxChanges == 1

\* the amounts by which the clock advances between two steps
TimeSteps == {60000}

----------------------------------------------------------------------------
(* Constants of the program *)

WindowMs == 60000
OddsTtlSeconds == 300
DefaultTtl == 300
FallbackConfidence == 60
DefaultParsedConfidence == 80
PlainTextConfidence == 70
TopN == 10
HttpCreated == 201
HttpConflict == 409
HttpInternalError == 500
HttpOk == 200
HttpUnauthorized == 401
HttpNotFound == 404
MantissaBits == 53

----------------------------------------------------------------------------
(* Names and configurations *)

\* loadBookmakerConfigs: the six configurations, all enabled.  The limits of
\* the first two are scaled down (LimitBet365, LimitWilliamHill); the others
\* are the limits of the code.
bookmakerConfigs ==
    << [name |-> "bet365", rateLimit |-> LimitBet365, enabled |-> TRUE],
       [name |-> "william_hill", rateLimit |-> LimitWilliamHill, enabled |-> TRUE],
       [name |-> "betfair", rateLimit |-> 120, enabled |-> TRUE],
       [name |-> "paddy_power", rateLimit |-> 45, enabled |-> TRUE],
       [name |-> "sportsbet", rateLimit |-> 100, enabled |-> TRUE],
       [name |-> "tab", rateLimit |-> 80, enabled |-> TRUE] >>

\* The names the requests of the model carry: configured names, other
\* spellings of them that getBookmakerConfig resolves, and a name with no
\* configuration.
RequestNames == {"bet365", "BET365", "william_hill", "william hill", "nobook"}

\* every name a run of fetchOddsFromBookmaker is started with
Names == RequestNames \cup {bookmakerConfigs[i].name : i \in 1..Len(bookmakerConfigs)}

Sports == {"football"}

\* String.prototype.toLowerCase on the names of the model
ToLowerCase(s) ==
    CASE s = "BET365" -> "bet365"
      [] OTHER -> s

\* String.prototype.replace('_', ' '): the first underscore only
ReplaceUnderscore(s) ==
    CASE s = "william_hill" -> "william hill"
      [] s = "paddy_power" -> "paddy power"
      [] OTHER -> s

\* the null of getBookmakerConfig
NoConfig == [name |-> "", rateLimit |-> 0, enabled |-> FALSE]

ConfigMatches(config, name) ==
    \/ ToLowerCase(config.name) = ToLowerCase(name)
    \/ ToLowerCase(ReplaceUnderscore(config.name)) = ToLowerCase(name)

\* Array.prototype.find: the first matching configuration, or null
GetBookmakerConfig(name) ==
    LET hits == {i \in 1..Len(bookmakerConfigs) : ConfigMatches(bookmakerConfigs[i], name)}
    IN  IF hits = {} THEN NoConfig
        ELSE bookmakerConfigs[CHOOSE i \in hits : \A j \in hits : i <= j]

\* the names getAllBookmakerOdds fetches: those of the enabled configurations
EnabledNames ==
    {bookmakerConfigs[i].name : i \in {j \in 1..Len(bookmakerConfigs) : bookmakerConfigs[j].enabled}}

----------------------------------------------------------------------------
(* Rate limiter *)

\* Array.prototype.filter
RECURSIVE SelectRecent(_, _)
SelectRecent(requests, t) ==
    IF requests = <<>> THEN <<>>
    ELSE LET rest == SelectRecent(Tail(requests), t)
         IN  IF t - Head(requests) < WindowMs THEN <<Head(requests)>> \o rest ELSE rest

\* checkRateLimit comparing with > where the code compares with >=
CheckRateLimitOffByOne(bookmakerName, t, tr) ==
    LET config == GetBookmakerConfig(bookmakerName)
        recentRequests == SelectRecent(tr[bookmakerName], t)
    IN  IF config = NoConfig THEN [admit |-> FALSE, tracker |-> tr]
        ELSE IF Len(recentRequests) > config.rateLimit
             THEN [admit |-> FALSE, tracker |-> tr]
             ELSE [admit |-> TRUE,
                   tracker |-> [tr EXCEPT ![bookmakerName] = Append(recentRequests, t)]]

\* checkRateLimit without its first two lines: with no configuration the
\* comparison with undefined is false and the request is admitted
CheckRateLimitFailOpen(bookmakerName, t, tr) ==
    LET config == GetBookmakerConfig(bookmakerName)
        recentRequests == SelectRecent(tr[bookmakerName], t)
    IN  IF config # NoConfig /\ Len(recentRequests) >= config.rateLimit
        THEN [admit |-> FALSE, tracker |-> tr]
        ELSE [admit |-> TRUE,
              tracker |-> [tr EXCEPT ![bookmakerName] = Append(recentRequests, t)]]

\* checkRateLimit keeping its window under the configured name, not under
\* the name it was called with
CheckRateLimitByConfigName(bookmakerName, t, tr) ==
    LET config == GetBookmakerConfig(bookmakerName)
        recentRequests == SelectRecent(tr[config.name], t)
    IN  IF config = NoConfig THEN [admit |-> FALSE, tracker |-> tr]
        ELSE IF Len(recentRequests) >= config.rateLimit
             THEN [admit |-> FALSE, tracker |-> tr]
             ELSE [admit |-> TRUE,
                   tracker |-> [tr EXCEPT ![config.name] = Append(recentRequests, t)]]

\* checkRateLimit(bookmakerName) at time t on tracker tr: whether it admits,
\* and the tracker it leaves
CheckRateLimit(bookmakerName, t, tr) ==
    LET config == GetBookmakerConfig(bookmakerName)
        recentRequests == SelectRecent(tr[bookmakerName], t)
    IN  IF config = NoConfig THEN [admit |-> FALSE, tracker |-> tr]
        ELSE IF Len(recentRequests) >= config.rateLimit
             THEN [admit |-> FALSE, tracker |-> tr]
             ELSE [admit |-> TRUE,
                   tracker |-> [tr EXCEPT ![bookmakerName] = Append(recentRequests, t)]]

----------------------------------------------------------------------------
(* JavaScript values held by the cache: arrays of quotes, numbers, null *)

JsNull == [type |-> "null", n |-> 0, items |-> <<>>]
JsArray(items) == [type |-> "array", n |-> 0, items |-> items]
JsNumber(k) == [type |-> "number", n |-> k, items |-> <<>>]

\* ToBoolean: null and 0 are falsy, every array (the empty one too) is truthy
Truthy(v) == v.type = "array" \/ (v.type = "number" /\ v.n # 0)

----------------------------------------------------------------------------
(* Cache store and CacheService *)

\* `odds:${bookmakerName}:${sport}`
OddsKey(bookmakerName, sport) == <<"odds", bookmakerName, sport>>

\* the keys and the ttl (in seconds) CacheService.wrap is called with; ttl 0
\* stands for a call without ttl as well (both are falsy in CacheService.set)
WrapKeys == {<<"wrap", "k">>}
WrapTtls == {0, OddsTtlSeconds}

Keys == {OddsKey(n, s) : n \in Names, s \in Sports} \cup WrapKeys

\* an entry of the store carries the time it expires at
NoEntry == [present |-> FALSE, value |-> JsNull, expires |-> 0]

\* cacheManager.get on a store that answers: the value of a live entry
StoreGet(st, key, t) ==
    IF st[key].present /\ t < st[key].expires
    THEN st[key].value
    ELSE JsNull

\* CacheService.set on a store that answers: cacheManager.set(key, value,
\* ttl * 1000) when ttl is truthy; otherwise cacheManager.set(key, value),
\* for which the store applies the ttl the cache module is configured with.
\* The store takes both numbers in the same unit, the milliseconds of the
\* clock here, so the configured 300 is a thousandth of a ttl argument of 300.
StoreSet(st, key, value, ttl, t) ==
    LET life == IF ttl # 0 THEN ttl * 1000 ELSE DefaultTtl
    IN  [st EXCEPT ![key] = [present |-> TRUE, value |-> value, expires |-> t + life]]

\* cacheManager.del(key) on a store that answers
StoreDel(st, key) == [st EXCEPT ![key] = NoEntry]

\* store.reset() on a store that answers
StoreReset(st) == [k \in DOMAIN st |-> NoEntry]

\* CacheService.get: data || null, and null when the store rejects
CacheGet(st, up, key, t) ==
    IF ~up THEN JsNull
    ELSE LET data == StoreGet(st, key, t)
         IN  IF Truthy(data) THEN data ELSE JsNull

\* CacheService.set: whether it resolves (it rethrows the store's rejection)
CacheSetOk(up) == up

----------------------------------------------------------------------------
(* Name normalisation (remote service not configured: the fallback rules) *)

\* OpenAIService.fallbackNormalization on the names of the model
FallbackNormalizedName(s) ==
    CASE s = "bet365" -> "Bet365"
      [] s = "BET365" -> "Bet365"
      [] s = "william_hill" -> "William_hill"
      [] s = "william hill" -> "William Hill"
      [] s = "betfair" -> "Betfair"
      [] s = "paddy_power" -> "Paddy_power"
      [] s = "sportsbet" -> "Sportsbet"
      [] s = "tab" -> "Tab"
      [] s = "nobook" -> "Nobook"
      [] s = "Sydney FC" -> "Sydney Fc"
      [] OTHER -> s

\* normalizeBookmakerName / normalizePlayerName: name and confidence
Normalize(s) == [normalizedName |-> FallbackNormalizedName(s), confidence |-> FallbackConfidence]

----------------------------------------------------------------------------
(* Upstream data and its processing *)

\* the price of a selection in the data of the Australian bookmakers
AustralianPrice(config, sportsbet, tab) == IF config.name = "sportsbet" THEN sportsbet ELSE tab

\* fetchOddsFromAPI: the data of the Australian bookmakers
AustralianMockOdds(config) ==
    << [event |-> "Sydney FC vs Melbourne City", market |-> "1X2",
        selections |-> << [name |-> "Sydney FC", odds |-> AustralianPrice(config, 230, 240)],
                          [name |-> "Draw", odds |-> AustralianPrice(config, 310, 300)],
                          [name |-> "Melbourne City", odds |-> AustralianPrice(config, 290, 280)] >>],
       [event |-> "Brisbane Roar vs Perth Glory", market |-> "1X2",
        selections |-> << [name |-> "Brisbane Roar", odds |-> AustralianPrice(config, 190, 195)],
                          [name |-> "Draw", odds |-> AustralianPrice(config, 340, 330)],
                          [name |-> "Perth Glory", odds |-> AustralianPrice(config, 410, 400)] >>],
       [event |-> "Western Sydney vs Adelaide United", market |-> "1X2",
        selections |-> << [name |-> "Western Sydney", odds |-> AustralianPrice(config, 260, 270)],
                          [name |-> "Draw", odds |-> AustralianPrice(config, 320, 315)],
                          [name |-> "Adelaide United", odds |-> AustralianPrice(config, 250, 245)] >>] >>

\* fetchOddsFromAPI: the data of an international bookmaker
InternationalMockOdds ==
    << [event |-> "Manchester United vs Chelsea", market |-> "1X2",
        selections |-> << [name |-> "Manchester United", odds |-> 250],
                          [name |-> "Draw", odds |-> 320],
                          [name |-> "Chelsea", odds |-> 280] >>],
       [event |-> "Liverpool vs Arsenal", market |-> "1X2",
        selections |-> << [name |-> "Liverpool", odds |-> 185],
                          [name |-> "Draw", odds |-> 350],
                          [name |-> "Arsenal", odds |-> 420] >>] >>

\* fetchOddsFromAPI: the data returned when the call does not throw
MockOdds(config) ==
    IF config.name \in {"sportsbet", "tab"} THEN AustralianMockOdds(config)
    ELSE InternationalMockOdds

\* the iterations of the two loops of processOddsData, in order: each event
\* with each of its selections
RECURSIVE RawSelections(_)
RawSelections(rawOdds) ==
    IF rawOdds = <<>> THEN <<>>
    ELSE [i \in 1..Len(Head(rawOdds).selections) |->
             [eventData |-> Head(rawOdds), selection |-> Head(rawOdds).selections[i]]]
            \o RawSelections(Tail(rawOdds))

\* the quote one iteration pushes at time t, once normalizePlayerName has
\* answered
ProcessedQuote(iteration, normalizedBookmaker, t) ==
    LET normalizedSelection == Normalize(iteration.selection.name)
    IN  [bookmaker |-> normalizedBookmaker,
         normalizedBookmaker |-> normalizedBookmaker,
         sport |-> "football",
         event |-> iteration.eventData.event,
         market |-> iteration.eventData.market,
         selection |-> normalizedSelection.normalizedName,
         odds |-> iteration.selection.odds,
         timestamp |-> t,
         confidence |-> normalizedSelection.confidence]

\* what fetchOddsFromAPI returns for bookmakerName, by iteration
RawOdds(bookmakerName) == RawSelections(MockOdds(GetBookmakerConfig(bookmakerName)))

----------------------------------------------------------------------------
(* Calls of fetchOddsFromBookmaker and getAllBookmakerOdds *)

\* One run of fetchOddsFromBookmaker(bookmakerName, sport).  pc names the
\* await it is suspended at; outcome, fetched, normalized and seen record
\* what the run did.
NewTask ==
    [pc |-> "get",            \* get, gate, normalize, api, process, set, written,
                              \* bookmakers, update, done
     cached |-> JsNull,       \* cachedOdds
     odds |-> <<>>,           \* processedOdds
     result |-> <<>>,         \* the value returned
     outcome |-> "pending",   \* hit, noconfig, denied, fetchfail, setfail, ok
     fetched |-> FALSE,       \* fetchOddsFromAPI was invoked
     normalized |-> FALSE,    \* the normaliser was invoked
     admit |-> "none",        \* what checkRateLimit answered: none (not asked), yes, no
     seen |-> -1]             \* the window's length at the admission check

\* a call from the controller: getOdds (kind fetch), getAllOdds (kind
\* collect) or getAggregatedAustralianOdds (kind australian)
NewCall(kind, names, sport, nth) ==
    [kind |-> kind,
     sport |-> sport,
     tasks |-> [n \in names |-> NewTask],
     results |-> [n \in {} |-> <<>>],   \* the Map of results
     order |-> <<>>,                     \* the keys of the Map in insertion order, where it is read in that order
     returned |-> FALSE,
     nth |-> nth]                        \* collect calls started in the last minute, this one included

\* the runs of the calls ids whose cache read was served and that have not
\* returned yet
RECURSIVE ActiveCount(_)
ActiveCount(ids) ==
    IF ids = {} THEN 0
    ELSE LET id == CHOOSE x \in ids : TRUE
         IN  Cardinality({n \in DOMAIN calls[id].tasks :
                             calls[id].tasks[n].pc \notin {"get", "done"}})
             + ActiveCount(ids \ {id})

\* Map.prototype.set
MapSet(m, k, v) == [x \in DOMAIN m \cup {k} |-> IF x = k THEN v ELSE m[x]]

\* a collection in which one failing source empties every entry
ResultsAfterFailFast(results, n, v, outcome) ==
    IF outcome \in {"fetchfail", "setfail"}
    THEN [x \in DOMAIN results \cup {n} |-> <<>>]
    ELSE MapSet(results, n, v)

\* The Map after the task for name n settled with value v: the async arrow
\* of getAllBookmakerOdds sets its own entry only
ResultsAfter(results, n, v, outcome) == MapSet(results, n, v)

\* fetchOddsFromBookmaker returns v: the task is done, and in a call that
\* collects the continuation of the arrow function stores v.  The Australian
\* view reads the Map in insertion order (oddsMap.forEach); the controller of
\* getAllBookmakerOdds copies it into an object keyed by name.
Settle(c, n, v, outcome, task) ==
    [c EXCEPT !.tasks[n] = [task EXCEPT !.pc = "done", !.result = v, !.outcome = outcome],
              !.results = IF c.kind \in {"collect", "australian"}
                          THEN ResultsAfter(c.results, n, v, outcome)
                          ELSE c.results,
              !.order = IF c.kind = "australian" /\ n \notin DOMAIN c.results
                        THEN Append(c.order, n)
                        ELSE c.order]

\* the collect calls started in the minute before t
RecentCollects(t) == Len(SelectRecent(collectLog, t))

\* GET /bookmakers/odds?bookmaker=name&sport=sport: the run is started and
\* its cache read is issued
StartFetch(name, sport) ==
    /\ nextId <= MaxCalls
    /\ Cardinality(DOMAIN calls) < MaxInFlight
    /\ calls' = MapSet(calls, nextId, NewCall("fetch", {name}, sport, 0))
    /\ nextId' = nextId + 1
    /\ UNCHANGED <<idleVars, failures, now, cacheUp, store, rateLimitTracker, everDown, computeCount,
                   collectLog, wraps>>

\* GET /bookmakers/odds/all?sport=sport, once the previous call was answered:
\* one run per enabled configuration, all started before the first await
StartNextCollect(sport) ==
    /\ nextId <= MaxCollects
    /\ DOMAIN calls = {}
    /\ calls' = MapSet(calls, nextId,
                       NewCall("collect", EnabledNames, sport, RecentCollects(now) + 1))
    /\ collectLog' = Append(SelectRecent(collectLog, now), now)
    /\ nextId' = nextId + 1
    /\ UNCHANGED <<idleVars, failures, now, cacheUp, store, rateLimitTracker, everDown, computeCount,
                   wraps>>

\* await this.cacheService.get(cacheKey): the store serves the read
TaskGet(id, n) ==
    /\ id \in DOMAIN calls
    /\ n \in DOMAIN calls[id].tasks
    /\ calls[id].tasks[n].pc = "get"
    /\ ActiveCount({id}) < MaxActive
    /\ calls' = [calls EXCEPT ![id].tasks[n].pc = "gate",
                              ![id].tasks[n].cached =
                                  CacheGet(store, cacheUp, OddsKey(n, calls[id].sport), now)]
    /\ UNCHANGED <<idleVars, failures, now, cacheUp, store, rateLimitTracker, nextId, everDown,
                   computeCount, collectLog, wraps>>

\* a run that ignores the limiter's answer
AfterAdmissionOpen(admit) == "normalize"

\* where the run goes after the admission check
AfterAdmission(admit) == IF admit THEN "normalize" ELSE "done"

\* a run that ignores what the cache returned
AfterCacheReadIgnored(cached) == "check"

\* where the run goes after the cache read
AfterCacheRead(cached) == IF Truthy(cached) THEN "done" ELSE "check"

\* From the cache read to the next await: the cached value if there is one,
\* else the configuration lookup, the admission check and the call of
\* normalizeBookmakerName
TaskGate(id, n) ==
    /\ id \in DOMAIN calls
    /\ n \in DOMAIN calls[id].tasks
    /\ calls[id].tasks[n].pc = "gate"
    /\ LET c == calls[id]
           task == c.tasks[n]
           config == GetBookmakerConfig(n)
           check == CheckRateLimit(n, now, rateLimitTracker)
           checked == [task EXCEPT !.seen = Len(SelectRecent(rateLimitTracker[n], now)),
                                   !.admit = IF check.admit THEN "yes" ELSE "no"]
       IN  IF AfterCacheRead(task.cached) = "done"
           THEN /\ calls' = [calls EXCEPT ![id] = Settle(c, n, task.cached.items, "hit", task)]
                /\ UNCHANGED rateLimitTracker
           ELSE IF config = NoConfig
           THEN /\ calls' = [calls EXCEPT ![id] = Settle(c, n, <<>>, "noconfig", task)]
                /\ UNCHANGED rateLimitTracker
           ELSE IF AfterAdmission(check.admit) = "done"
           THEN /\ calls' = [calls EXCEPT ![id] = Settle(c, n, <<>>, "denied", checked)]
                /\ rateLimitTracker' = check.tracker
           ELSE /\ calls' = [calls EXCEPT ![id].tasks[n] =
                                [checked EXCEPT !.pc = "normalize", !.normalized = TRUE]]
                /\ rateLimitTracker' = check.tracker
    /\ UNCHANGED <<idleVars, failures, now, cacheUp, store, nextId, everDown, computeCount, collectLog, wraps>>

\* await this.openaiService.normalizeBookmakerName(...) resolves (it never
\* rejects) and fetchOddsFromAPI is called: the run waits for its timer
TaskNormalize(id, n) ==
    /\ id \in DOMAIN calls
    /\ n \in DOMAIN calls[id].tasks
    /\ calls[id].tasks[n].pc = "normalize"
    /\ calls' = [calls EXCEPT ![id].tasks[n].pc = "api", ![id].tasks[n].fetched = TRUE]
    /\ UNCHANGED <<idleVars, failures, now, cacheUp, store, rateLimitTracker, nextId, everDown,
                   computeCount, collectLog, wraps>>

\* await this.fetchOddsFromAPI(config, sport): the timer has fired and the
\* call returns its data (ok) or throws; with data processOddsData is called
\* and waits for the normaliser in its first iteration
TaskFetch(id, n, ok) ==
    /\ id \in DOMAIN calls
    /\ n \in DOMAIN calls[id].tasks
    /\ calls[id].tasks[n].pc = "api"
    /\ ok \/ failures < MaxFailures
    /\ LET c == calls[id]
           task == c.tasks[n]
       IN  /\ calls' = IF ok
                       THEN [calls EXCEPT ![id].tasks[n].pc =
                                IF RawOdds(n) = <<>> THEN "set" ELSE "process"]
                       ELSE [calls EXCEPT ![id] = Settle(c, n, <<>>, "fetchfail", task)]
           /\ computeCount' = IF ok
                            THEN [computeCount EXCEPT ![OddsKey(n, c.sport)] = @ + 1]
                            ELSE computeCount
           /\ failures' = IF ok THEN failures ELSE failures + 1
    /\ UNCHANGED <<idleVars, now, cacheUp, store, rateLimitTracker, nextId, everDown,
                   collectLog, wraps>>

\* One iteration of processOddsData: await normalizePlayerName(selection.name)
\* resolves and the quote is pushed with its own new Date(); the next
\* iteration waits for the normaliser again, and after the last one
\* processOddsData returns and cacheService.set(cacheKey, processedOdds, 300)
\* is called
TaskProcess(id, n) ==
    /\ id \in DOMAIN calls
    /\ n \in DOMAIN calls[id].tasks
    /\ calls[id].tasks[n].pc = "process"
    /\ LET task == calls[id].tasks[n]
           k == Len(task.odds) + 1
           quote == ProcessedQuote(RawOdds(n)[k], Normalize(n).normalizedName, now)
       IN  calls' = [calls EXCEPT ![id].tasks[n].odds = Append(task.odds, quote),
                                  ![id].tasks[n].pc = IF k = Len(RawOdds(n)) THEN "set"
                                                      ELSE "process"]
    /\ UNCHANGED <<idleVars, failures, now, cacheUp, store, rateLimitTracker, nextId, everDown,
                   computeCount, collectLog, wraps>>

\* what fetchOddsFromBookmaker returns once the cache write has settled:
\* a rejected write lands in the catch block
AfterCacheWrite(written, odds) == IF written THEN odds ELSE <<>>

\* The store serves the write of cacheService.set: the entry is there while
\* the run still waits; a rejected write lands in the catch block, which
\* returns []
TaskSet(id, n) ==
    /\ id \in DOMAIN calls
    /\ n \in DOMAIN calls[id].tasks
    /\ calls[id].tasks[n].pc = "set"
    /\ LET c == calls[id]
           task == c.tasks[n]
           written == CacheSetOk(cacheUp)
       IN  /\ calls' = IF written
                       THEN [calls EXCEPT ![id].tasks[n].pc = "written"]
                       ELSE [calls EXCEPT ![id] =
                                Settle(c, n, AfterCacheWrite(written, task.odds),
                                       "setfail", task)]
           /\ store' = IF written
                       THEN StoreSet(store, OddsKey(n, c.sport), JsArray(task.odds),
                                     OddsTtlSeconds, now)
                       ELSE store
    /\ UNCHANGED <<idleVars, failures, now, cacheUp, rateLimitTracker, nextId, everDown, computeCount,
                   collectLog, wraps>>

\* await this.cacheService.set(...) resolves and
\* pocketbaseService.getBookmakers(`name = "${bookmakerName}"`) is called
TaskWritten(id, n) ==
    /\ id \in DOMAIN calls
    /\ n \in DOMAIN calls[id].tasks
    /\ calls[id].tasks[n].pc = "written"
    /\ calls' = [calls EXCEPT ![id].tasks[n].pc = "bookmakers"]
    /\ UNCHANGED <<idleVars, failures, now, cacheUp, store, rateLimitTracker, nextId, everDown,
                   computeCount, collectLog, wraps>>

\* await this.pocketbaseService.getBookmakers(...) resolves (it swallows its
\* errors): with a record found updateBookmaker is called, else the run
\* returns processedOdds
TaskBookmakers(id, n, found) ==
    /\ id \in DOMAIN calls
    /\ n \in DOMAIN calls[id].tasks
    /\ calls[id].tasks[n].pc = "bookmakers"
    /\ LET c == calls[id]
           task == c.tasks[n]
       IN  calls' = IF found
                    THEN [calls EXCEPT ![id].tasks[n].pc = "update"]
                    ELSE [calls EXCEPT ![id] =
                             Settle(c, n, AfterCacheWrite(TRUE, task.odds), "ok", task)]
    /\ UNCHANGED <<idleVars, failures, now, cacheUp, store, rateLimitTracker, nextId, everDown,
                   computeCount, collectLog, wraps>>

\* await this.pocketbaseService.updateBookmaker(...) resolves (it swallows
\* its errors) and the run returns processedOdds
TaskUpdate(id, n) ==
    /\ id \in DOMAIN calls
    /\ n \in DOMAIN calls[id].tasks
    /\ calls[id].tasks[n].pc = "update"
    /\ LET c == calls[id]
           task == c.tasks[n]
       IN  calls' = [calls EXCEPT ![id] =
                        Settle(c, n, AfterCacheWrite(TRUE, task.odds), "ok", task)]
    /\ UNCHANGED <<idleVars, failures, now, cacheUp, store, rateLimitTracker, nextId, everDown,
                   computeCount, collectLog, wraps>>

\* a join that resumes on the first task to settle
JoinReadyAny(c) == \E n \in DOMAIN c.tasks : c.tasks[n].pc = "done"

\* await Promise.allSettled(promises): every task has settled
JoinReady(c) == \A n \in DOMAIN c.tasks : c.tasks[n].pc = "done"

\* the call returns to the controller
Return(id) ==
    /\ id \in DOMAIN calls
    /\ calls[id].kind # "australian"
    /\ ~calls[id].returned
    /\ JoinReady(calls[id])
    /\ calls' = [calls EXCEPT ![id].returned = TRUE]
    /\ UNCHANGED <<idleVars, failures, now, cacheUp, store, rateLimitTracker, nextId, everDown,
                   computeCount, collectLog, wraps>>

\* the response is sent and the call's state is dropped
Respond(id) ==
    /\ id \in DOMAIN calls
    /\ calls[id].returned
    /\ calls' = [x \in DOMAIN calls \ {id} |-> calls[x]]
    /\ UNCHANGED <<idleVars, failures, now, cacheUp, store, rateLimitTracker, nextId, everDown,
                   computeCount, collectLog, wraps>>

----------------------------------------------------------------------------
(* Calls of CacheService.wrap(key, fn, ttl) *)

\* what one invocation of fn may do: resolve with a value, or reject
FnOutcomes ==
    {[ok |-> TRUE, value |-> JsNumber(0)],
     [ok |-> TRUE, value |-> JsNumber(1)],
     [ok |-> FALSE, value |-> JsNull]}

NewWrap(key, ttl) ==
    [key |-> key,
     ttl |-> ttl,
     pc |-> "get",            \* get, gate, fn, set, written, retry, done
     cached |-> JsNull,       \* cached
     value |-> JsNull,        \* result: what the first fn() resolved with
     result |-> JsNull,       \* the value wrap resolves with
     threw |-> FALSE,         \* wrap rejected
     invoked |-> 0,           \* invocations of fn
     fnThrew |-> FALSE,       \* an invocation of fn rejected
     readFailed |-> FALSE,    \* the store rejected the read
     writeFailed |-> FALSE]   \* the store rejected the write

StartWrap(key, ttl) ==
    /\ nextId <= MaxCalls
    /\ Cardinality(DOMAIN wraps) < MaxInFlight
    /\ wraps' = MapSet(wraps, nextId, NewWrap(key, ttl))
    /\ nextId' = nextId + 1
    /\ UNCHANGED <<idleVars, failures, now, cacheUp, store, rateLimitTracker, calls, everDown,
                   computeCount, collectLog>>

\* const cached = await this.get<T>(key)
WrapGet(id) ==
    /\ id \in DOMAIN wraps
    /\ wraps[id].pc = "get"
    /\ wraps' = [wraps EXCEPT ![id].pc = "gate",
                              ![id].cached = CacheGet(store, cacheUp, wraps[id].key, now),
                              ![id].readFailed = ~cacheUp]
    /\ UNCHANGED <<idleVars, failures, now, cacheUp, store, rateLimitTracker, calls, nextId, everDown,
                   computeCount, collectLog>>

\* if (cached !== null) return cached; otherwise fn is invoked
WrapGate(id) ==
    /\ id \in DOMAIN wraps
    /\ wraps[id].pc = "gate"
    /\ wraps' = IF wraps[id].cached # JsNull
                THEN [wraps EXCEPT ![id].pc = "done", ![id].result = wraps[id].cached]
                ELSE [wraps EXCEPT ![id].pc = "fn", ![id].invoked = @ + 1]
    /\ UNCHANGED <<idleVars, failures, now, cacheUp, store, rateLimitTracker, calls, nextId, everDown,
                   computeCount, collectLog>>

\* What wrap does when the step at pc (fn, set) rejects: the catch block
\* invokes fn again
WrapCatch(w) == [w EXCEPT !.pc = "retry", !.invoked = @ + 1]

\* const result = await fn()
WrapFn(id, r) ==
    /\ id \in DOMAIN wraps
    /\ wraps[id].pc = "fn"
    /\ wraps' = IF r.ok
                THEN [wraps EXCEPT ![id].pc = "set", ![id].value = r.value]
                ELSE [wraps EXCEPT ![id] = WrapCatch([wraps[id] EXCEPT !.fnThrew = TRUE])]
    /\ computeCount' = IF r.ok THEN [computeCount EXCEPT ![wraps[id].key] = @ + 1]
                       ELSE computeCount
    /\ UNCHANGED <<idleVars, failures, now, cacheUp, store, rateLimitTracker, calls, nextId, everDown,
                   collectLog>>

\* The store serves the write of this.set(key, result, ttl): the entry is
\* there while wrap still waits; a rejected write lands in the catch block
WrapSet(id) ==
    /\ id \in DOMAIN wraps
    /\ wraps[id].pc = "set"
    /\ LET w == wraps[id]
       IN  IF CacheSetOk(cacheUp)
           THEN /\ store' = StoreSet(store, w.key, w.value, w.ttl, now)
                /\ wraps' = [wraps EXCEPT ![id].pc = "written"]
           ELSE /\ store' = store
                /\ wraps' = [wraps EXCEPT ![id] = WrapCatch([w EXCEPT !.writeFailed = TRUE])]
    /\ UNCHANGED <<idleVars, failures, now, cacheUp, rateLimitTracker, calls, nextId, everDown,
                   computeCount, collectLog>>

\* await this.set(key, result, ttl) resolves; return result
WrapWritten(id) ==
    /\ id \in DOMAIN wraps
    /\ wraps[id].pc = "written"
    /\ wraps' = [wraps EXCEPT ![id].pc = "done", ![id].result = wraps[id].value]
    /\ UNCHANGED <<idleVars, failures, now, cacheUp, store, rateLimitTracker, calls, nextId,
                   everDown, computeCount, collectLog>>

\* return await fn() in the catch block: its rejection is wrap's
WrapRetry(id, r) ==
    /\ id \in DOMAIN wraps
    /\ wraps[id].pc = "retry"
    /\ wraps' = IF r.ok
                THEN [wraps EXCEPT ![id].pc = "done", ![id].result = r.value]
                ELSE [wraps EXCEPT ![id].pc = "done", ![id].threw = TRUE,
                                   ![id].fnThrew = TRUE]
    /\ computeCount' = IF r.ok THEN [computeCount EXCEPT ![wraps[id].key] = @ + 1]
                       ELSE computeCount
    /\ UNCHANGED <<idleVars, failures, now, cacheUp, store, rateLimitTracker, calls, nextId, everDown,
                   collectLog>>

\* the caller of wrap has its answer and the call's state is dropped
WrapRespond(id) ==
    /\ id \in DOMAIN wraps
    /\ wraps[id].pc = "done"
    /\ wraps' = [x \in DOMAIN wraps \ {id} |-> wraps[x]]
    /\ UNCHANGED <<idleVars, failures, now, cacheUp, store, rateLimitTracker, calls, nextId, everDown,
                   computeCount, collectLog>>

\* what the call hands to the controller
Response(c) ==
    IF c.kind = "collect" THEN c.results
    ELSE LET n == CHOOSE x \in DOMAIN c.tasks : TRUE IN c.tasks[n].result

----------------------------------------------------------------------------
(* Environment *)

\* time passes
Tick(d) ==
    /\ now + d <= MaxTime
    /\ now' = now + d
    /\ UNCHANGED <<idleVars, failures, cacheUp, store, rateLimitTracker, calls, nextId, everDown,
                   computeCount, collectLog, wraps>>

\* the cache store goes away
CacheFails ==
    /\ cacheUp
    /\ ~everDown
    /\ cacheUp' = FALSE
    /\ everDown' = TRUE
    /\ UNCHANGED <<idleVars, failures, now, store, rateLimitTracker, calls, nextId, computeCount,
                   collectLog, wraps>>

\* the cache store comes back
CacheRecovers ==
    /\ ~cacheUp
    /\ cacheUp' = TRUE
    /\ UNCHANGED <<idleVars, failures, now, store, rateLimitTracker, calls, nextId, everDown,
                   computeCount, collectLog, wraps>>

\* CacheService.del(key), called by another part of the application: the
\* entry goes, and a rejection of the store is logged and swallowed
CacheDel(key) ==
    /\ store[key].present
    /\ store' = IF cacheUp THEN StoreDel(store, key) ELSE store
    /\ UNCHANGED <<idleVars, failures, now, cacheUp, rateLimitTracker, calls, nextId, everDown,
                   computeCount, collectLog, wraps>>

\* CacheService.reset(), called by another part of the application: every
\* entry goes when the store has a reset method (available) and answers;
\* otherwise a warning or the error is logged and nothing changes
CacheReset(available) ==
    /\ \E k \in Keys : store[k].present
    /\ store' = IF available /\ cacheUp THEN StoreReset(store) ELSE store
    /\ UNCHANGED <<idleVars, failures, now, cacheUp, rateLimitTracker, calls, nextId, everDown,
                   computeCount, collectLog, wraps>>

----------------------------------------------------------------------------
(* OpenAIService: name normalisation on strings as sequences of characters *)

LowerLetters == <<"a", "b", "c", "d", "e", "f", "g", "h", "i", "j", "k", "l", "m", "n", "o", "p", "q", "r", "s", "t", "u", "v", "w", "x", "y", "z">>
UpperLetters == <<"A", "B", "C", "D", "E", "F", "G", "H", "I", "J", "K", "L", "M", "N", "O", "P", "Q", "R", "S", "T", "U", "V", "W", "X", "Y", "Z">>
Digits == <<"0", "1", "2", "3", "4", "5", "6", "7", "8", "9">>

\* the position of character c in seq, 0 if it is not there
IndexOf(c, seq) ==
    IF \E i \in 1..Len(seq) : seq[i] = c
    THEN CHOOSE i \in 1..Len(seq) : seq[i] = c
    ELSE 0

\* The characters of the model are those of ISO Latin-1.  A character beyond
\* ASCII is written by its code point: "U+00C9" is the capital E with acute,
\* "U+00E9" the small one, "U+00DF" the sharp s, "U+00A0" the no-break space.
\* These are the letters beyond ASCII that have both cases in Latin-1 (the y
\* with diaeresis and the micro sign, whose capitals lie outside, are not
\* characters of the model).
LowerLatin == <<"U+00E0", "U+00E1", "U+00E2", "U+00E3", "U+00E4", "U+00E5", "U+00E6", "U+00E7", "U+00E8", "U+00E9", "U+00EA", "U+00EB", "U+00EC", "U+00ED", "U+00EE", "U+00EF", "U+00F0", "U+00F1", "U+00F2", "U+00F3", "U+00F4", "U+00F5", "U+00F6", "U+00F8", "U+00F9", "U+00FA", "U+00FB", "U+00FC", "U+00FD", "U+00FE">>
UpperLatin == <<"U+00C0", "U+00C1", "U+00C2", "U+00C3", "U+00C4", "U+00C5", "U+00C6", "U+00C7", "U+00C8", "U+00C9", "U+00CA", "U+00CB", "U+00CC", "U+00CD", "U+00CE", "U+00CF", "U+00D0", "U+00D1", "U+00D2", "U+00D3", "U+00D4", "U+00D5", "U+00D6", "U+00D8", "U+00D9", "U+00DA", "U+00DB", "U+00DC", "U+00DD", "U+00DE">>

\* String.prototype.toLowerCase on one character
CharToLower(c) ==
    LET i == IndexOf(c, UpperLetters)
        j == IndexOf(c, UpperLatin)
    IN  IF i > 0 THEN LowerLetters[i]
        ELSE IF j > 0 THEN LowerLatin[j]
        ELSE c

\* String.prototype.toUpperCase on one character whose capital is one
\* character
CharToUpper(c) ==
    LET i == IndexOf(c, LowerLetters)
        j == IndexOf(c, LowerLatin)
    IN  IF i > 0 THEN UpperLetters[i]
        ELSE IF j > 0 THEN UpperLatin[j]
        ELSE c

\* String.prototype.toUpperCase on one character: the sharp s becomes SS
ToUpperCase(c) == IF c = "U+00DF" THEN <<"S", "S">> ELSE <<CharToUpper(c)>>

\* .toLowerCase()
StrToLower(s) == [i \in 1..Len(s) |-> CharToLower(s[i])]

\* the regular expression classes \s and \w
\* the characters of \s and of trim() among those of the model: tab, line feed,
\* vertical tab, form feed, carriage return, space, no-break space
WhiteSpace == {"\t", "\n", "", "\f", "\r", " ", "U+00A0"}
IsSpace(c) == c \in WhiteSpace
IsWord(c) ==
    \/ IndexOf(c, LowerLetters) > 0
    \/ IndexOf(c, UpperLetters) > 0
    \/ IndexOf(c, Digits) > 0
    \/ c = "_"

\* .trim()
RECURSIVE TrimStart(_)
TrimStart(s) ==
    IF s # <<>> /\ IsSpace(Head(s)) THEN TrimStart(Tail(s)) ELSE s
RECURSIVE TrimEnd(_)
TrimEnd(s) ==
    IF s # <<>> /\ IsSpace(s[Len(s)]) THEN TrimEnd(SubSeq(s, 1, Len(s) - 1)) ELSE s
Trim(s) == TrimEnd(TrimStart(s))

\* .replace(/[^\w\s]/g, ' ')
ReplaceSpecial(s) ==
    [i \in 1..Len(s) |-> IF IsWord(s[i]) \/ IsSpace(s[i]) THEN s[i] ELSE " "]

\* .replace(/\s+/g, ' ')
RECURSIVE CollapseSpace(_)
CollapseSpace(s) ==
    IF s = <<>> THEN <<>>
    ELSE IF IsSpace(Head(s))
    THEN <<" ">> \o CollapseSpace(TrimStart(s))
    ELSE <<Head(s)>> \o CollapseSpace(Tail(s))

\* .split(' '): the pieces between the spaces, empty pieces included
RECURSIVE SplitSpace(_, _)
SplitSpace(s, piece) ==
    IF s = <<>> THEN <<piece>>
    ELSE IF Head(s) = " "
    THEN <<piece>> \o SplitSpace(Tail(s), <<>>)
    ELSE SplitSpace(Tail(s), Append(piece, Head(s)))

\* word.charAt(0).toUpperCase() + word.slice(1)
Capitalize(word) ==
    IF word = <<>> THEN <<>> ELSE ToUpperCase(Head(word)) \o Tail(word)

\* .join(' ')
RECURSIVE JoinSpace(_)
JoinSpace(words) ==
    IF words = <<>> THEN <<>>
    ELSE IF Len(words) = 1 THEN Head(words)
    ELSE Head(words) \o <<" ">> \o JoinSpace(Tail(words))

\* String.prototype.includes
Includes(hay, needle) ==
    \E i \in 0..(Len(hay) - Len(needle)) : SubSeq(hay, i + 1, i + Len(needle)) = needle

\* .replace(/['"]/g, '')
RECURSIVE StripQuotes(_)
StripQuotes(s) ==
    IF s = <<>> THEN <<>>
    ELSE IF Head(s) \in {"'", "\""} THEN StripQuotes(Tail(s))
    ELSE <<Head(s)>> \o StripQuotes(Tail(s))

\* bookmakerMappings, in the order of Object.entries
bookmakerMappings ==
    << [key |-> <<"b", "e", "t", "3", "6", "5">>,
        value |-> <<"B", "e", "t", "3", "6", "5">>],
       [key |-> <<"w", "i", "l", "l", "i", "a", "m", " ", "h", "i", "l", "l">>,
        value |-> <<"W", "i", "l", "l", "i", "a", "m", " ", "H", "i", "l", "l">>],
       [key |-> <<"p", "a", "d", "d", "y", " ", "p", "o", "w", "e", "r">>,
        value |-> <<"P", "a", "d", "d", "y", " ", "P", "o", "w", "e", "r">>],
       [key |-> <<"b", "e", "t", "f", "a", "i", "r">>,
        value |-> <<"B", "e", "t", "f", "a", "i", "r">>],
       [key |-> <<"l", "a", "d", "b", "r", "o", "k", "e", "s">>,
        value |-> <<"L", "a", "d", "b", "r", "o", "k", "e", "s">>],
       [key |-> <<"c", "o", "r", "a", "l">>,
        value |-> <<"C", "o", "r", "a", "l">>],
       [key |-> <<"8", "8", "8", " ", "s", "p", "o", "r", "t">>,
        value |-> <<"8", "8", "8", " ", "S", "p", "o", "r", "t">>],
       [key |-> <<"u", "n", "i", "b", "e", "t">>,
        value |-> <<"U", "n", "i", "b", "e", "t">>],
       [key |-> <<"b", "e", "t", "w", "a", "y">>,
        value |-> <<"B", "e", "t", "w", "a", "y">>],
       [key |-> <<"s", "k", "y", " ", "b", "e", "t">>,
        value |-> <<"S", "k", "y", " ", "B", "e", "t">>] >>

\* the loop over Object.entries(bookmakerMappings) that stops at a key found
\* in the last table position
LastMatch(matches) == CHOOSE i \in matches : \A j \in matches : j <= i

\* the loop over Object.entries(bookmakerMappings) with its break: the first
\* key, in table order, that the string includes
FirstMatch(matches) == CHOOSE i \in matches : \A j \in matches : i <= j

\* the string after trim, toLowerCase, the two replacements, and the
\* capitalisation of every piece
TitleCase(originalName) ==
    LET pieces == SplitSpace(CollapseSpace(ReplaceSpecial(StrToLower(Trim(originalName)))), <<>>)
    IN  JoinSpace([i \in 1..Len(pieces) |-> Capitalize(pieces[i])])

\* the positions of the keys that the lower-cased string includes
MatchingKeys(lowerNormalized) ==
    {i \in 1..Len(bookmakerMappings) : Includes(lowerNormalized, bookmakerMappings[i].key)}

\* OpenAIService.fallbackNormalization
fallbackNormalization(originalName) ==
    LET normalized == TitleCase(originalName)
        matches == MatchingKeys(StrToLower(normalized))
    IN  [normalizedName |-> IF matches = {} THEN normalized
                            ELSE bookmakerMappings[FirstMatch(matches)].value,
         confidence |-> FallbackConfidence]

\* The content of a reply of the remote service.  A JSON object is given by
\* the two fields parseOpenAIResponse reads: normalizedName (a string, empty
\* when absent) and confidence (a number in hundredths, has = FALSE when absent).
NoContent == [kind |-> "none", text |-> <<>>, name |-> <<>>, has |-> FALSE, conf |-> 0]
TextContent(text) == [kind |-> "text", text |-> text, name |-> <<>>, has |-> FALSE, conf |-> 0]
JsonContent(name, has, conf) ==
    [kind |-> "json", text |-> <<>>, name |-> name, has |-> has, conf |-> conf]

\* OpenAIService.parseOpenAIResponse
parseOpenAIResponse(response, originalName) ==
    IF response.kind = "json"
    THEN [normalizedName |-> IF response.name # <<>> THEN response.name ELSE originalName,
          confidence |-> IF response.has /\ response.conf # 0 THEN response.conf
                         ELSE DefaultParsedConfidence]
    ELSE LET normalizedName == StripQuotes(Trim(response.text))
         IN  [normalizedName |-> IF normalizedName # <<>> THEN normalizedName
                                 ELSE originalName,
              confidence |-> PlainTextConfidence]

\* a catch block that lets the error of the remote call escape
AfterRemoteErrorRethrown(originalName) ==
    [threw |-> TRUE, result |-> [normalizedName |-> <<>>, confidence |-> 0]]

\* the catch block of normalizeBookmakerName and normalizePlayerName
AfterRemoteError(originalName) ==
    [threw |-> FALSE, result |-> fallbackNormalization(originalName)]

\* the names given to the normaliser: the names of the examples, and every
\* string of at most MaxNameLen characters of NameAlphabet
NameAlphabet == {"a", "B", "3", " ", "!", "_", "\r", "U+00C9"}
ShortNames == UNION {[1..n -> NameAlphabet] : n \in 0..MaxNameLen}
ExampleNames ==
    {  <<"b", "e", "t", "3", "6", "5">>,
       <<"P", "a", "d", "d", "y", " ", " ", "P", "o", "w", "e", "r", "!", "!">>,
       <<"w", "i", "l", "l", "i", "a", "m", "_", "h", "i", "l", "l">>,
       <<"b", "e", "t", "w", "a", "y", " ", "c", "o", "r", "a", "l">>,
       <<"B", "E", "T", "3", "6", "5", " ", "U", "K">>,
       <<"M", "a", "n", "c", "h", "e", "s", "t", "e", "r", " ", "U", "n", "i", "t", "e", "d">>,
       <<"S", "k", "y", "-", "B", "e", "t">>,
       <<"8", "8", "8", "s", "p", "o", "r", "t">>,
       <<" ", " ", "U", "n", "i", "b", "e", "t", "\t">>,
       <<"x">> }
NameInputs == ShortNames \cup ExampleNames

\* the replies of the remote service
ReplyNames == {<<>>, <<"B", "e", "t", "3", "6", "5">>}
ReplyConfidences == {0, 95, 100, 150, 0 - 10}
ReplyTexts == {<<"n", "u", "l", "l">>, <<"'", "'">>, <<" ", "'", "B", "e", "t", "'">>, <<" ">>}
Replies ==
    {NoContent}
    \cup {TextContent(t) : t \in ReplyTexts}
    \cup {JsonContent(n, h, c) : n \in ReplyNames, h \in BOOLEAN, c \in ReplyConfidences}

\* no call of the normaliser
NoNormalization ==
    [pc |-> "idle", fn |-> "none", originalName |-> <<>>, isEnabled |-> FALSE,
     path |-> "none", threw |-> FALSE,
     result |-> [normalizedName |-> <<>>, confidence |-> 0]]

\* normalizeBookmakerName / normalizePlayerName up to the remote call: the
\* fallback when the service is not configured
NormalizeCall ==
    /\ norm.pc = "start"
    /\ norm' = IF ~norm.isEnabled
               THEN [norm EXCEPT !.pc = "done", !.path = "unconfigured",
                                 !.result = fallbackNormalization(norm.originalName)]
               ELSE [norm EXCEPT !.pc = "remote"]
    /\ UNCHANGED <<oddsVars, agg, view, auth, acct, aus, retry>>

\* await this.openai.chat.completions.create(...) resolves with content
RemoteReplies(content) ==
    /\ norm.pc = "remote"
    /\ norm' = IF content.kind = "none"
               THEN LET r == AfterRemoteError(norm.originalName)
                    IN  [norm EXCEPT !.pc = "done", !.path = "nocontent",
                                     !.threw = r.threw, !.result = r.result]
               ELSE [norm EXCEPT !.pc = "done", !.path = content.kind,
                                 !.result = parseOpenAIResponse(content, norm.originalName)]
    /\ UNCHANGED <<oddsVars, agg, view, auth, acct, aus, retry>>

\* await this.openai.chat.completions.create(...) rejects: the call failed
\* or timed out
RemoteFails(how) ==
    /\ norm.pc = "remote"
    /\ LET r == AfterRemoteError(norm.originalName)
       IN  norm' = [norm EXCEPT !.pc = "done", !.path = how,
                                !.threw = r.threw, !.result = r.result]
    /\ UNCHANGED <<oddsVars, agg, view, auth, acct, aus, retry>>

----------------------------------------------------------------------------
(* IEEE 754 double-precision arithmetic, as JavaScript numbers have it.     *)
(* A number is (-1)^neg * m * 2^e with m a natural number given by its      *)
(* binary digits, lowest first, odd unless the number is zero.  Results are *)
(* rounded to MantissaBits significant bits, ties to even; the exponent     *)
(* range is not modelled (no overflow and no subnormal numbers arise for    *)
(* prices).                                                                 *)

\* the digit of a at position i, 0 beyond its length
Digit(a, i) == IF i <= Len(a) THEN a[i] ELSE 0

\* a without the zero digits at its high end
StripHigh(a) ==
    LET ones == {i \in 1..Len(a) : a[i] = 1}
    IN  IF ones = {} THEN <<>>
        ELSE SubSeq(a, 1, CHOOSE i \in ones : \A j \in ones : j <= i)

\* the number of zero digits at the low end of a non-zero a
LowZeros(a) ==
    LET ones == {i \in 1..Len(a) : a[i] = 1}
    IN  (CHOOSE i \in ones : \A j \in ones : i <= j) - 1

Zeros(k) == [i \in 1..k |-> 0]

\* a + b + c for naturals a, b and a carry c: the carry into position i
\* comes from the last position below i that does not pass a carry on
AddBits(a, b, c) ==
    LET n == (IF Len(a) < Len(b) THEN Len(b) ELSE Len(a)) + 1
        carry(i) ==
            \/ \E j \in 1..(i - 1) :
                  /\ Digit(a, j) + Digit(b, j) = 2
                  /\ \A k \in (j + 1)..(i - 1) : Digit(a, k) + Digit(b, k) = 1
            \/ c = 1 /\ \A k \in 1..(i - 1) : Digit(a, k) + Digit(b, k) = 1
    IN  StripHigh([i \in 1..n |->
                      (Digit(a, i) + Digit(b, i) + (IF carry(i) THEN 1 ELSE 0)) % 2])

\* a - b for naturals a >= b
SubBits(a, b) ==
    LET borrow(i) ==
            \E j \in 1..(i - 1) :
                /\ Digit(a, j) < Digit(b, j)
                /\ \A k \in (j + 1)..(i - 1) : Digit(a, k) = Digit(b, k)
    IN  StripHigh([i \in 1..Len(a) |->
                      (Digit(a, i) - Digit(b, i) - (IF borrow(i) THEN 1 ELSE 0) + 2) % 2])

\* a < b for naturals
LessBits(a, b) ==
    \E i \in 1..Len(b) :
        /\ Digit(a, i) < b[i]
        /\ \A k \in (i + 1)..(IF Len(a) < Len(b) THEN Len(b) ELSE Len(a)) :
              Digit(a, k) = Digit(b, k)

\* a * b for naturals: b is split in two halves until it is one digit
RECURSIVE MulBits(_, _)
MulBits(a, b) ==
    IF Len(b) = 0 THEN <<>>
    ELSE IF Len(b) = 1 THEN (IF b[1] = 1 THEN a ELSE <<>>)
    ELSE LET half == Len(b) \div 2
         IN  AddBits(MulBits(a, SubSeq(b, 1, half)),
                     Zeros(half) \o MulBits(a, SubSeq(b, half + 1, Len(b))), 0)

\* 2^k modulo n
RECURSIVE Pow2Mod(_, _)
Pow2Mod(k, n) ==
    IF k = 0 THEN 1 % n
    ELSE IF k % 2 = 1 THEN (2 * Pow2Mod(k - 1, n)) % n
    ELSE (Pow2Mod(k \div 2, n) * Pow2Mod(k \div 2, n)) % n

\* a modulo a small positive integer n
RECURSIVE ModBits(_, _)
ModBits(a, n) ==
    IF Len(a) = 0 THEN 0
    ELSE IF Len(a) = 1 THEN a[1] % n
    ELSE LET half == Len(a) \div 2
         IN  (ModBits(SubSeq(a, half + 1, Len(a)), n) * Pow2Mod(half, n)
                + ModBits(SubSeq(a, 1, half), n)) % n

\* Long division of a natural a by a small positive integer n, from the
\* highest digit down: the remainder left by the digits above position i
RemAbove(a, i, n) == ModBits(SubSeq(a, i + 1, Len(a)), n)

\* the quotient q and the remainder r of a / n
DivSmall(a, n) ==
    [q |-> StripHigh([i \in 1..Len(a) |-> (2 * RemAbove(a, i, n) + a[i]) \div n]),
     r |-> RemAbove(a, 0, n)]

FloatZero == [neg |-> FALSE, m |-> <<>>, e |-> 0]

\* m * 2^e with the zero digits at both ends of m removed
Reduced(neg, m, e) ==
    LET h == StripHigh(m)
        k == LowZeros(h)
    IN  IF h = <<>> THEN FloatZero
        ELSE [neg |-> neg, m |-> SubSeq(h, k + 1, Len(h)), e |-> e + k]

\* the double nearest to (-1)^neg * m * 2^e, ties to even
RoundToDouble(neg, m, e) ==
    LET x == Reduced(neg, m, e)
        k == Len(x.m) - MantissaBits
    IN  IF k <= 0 THEN x
        ELSE LET kept == SubSeq(x.m, k + 1, Len(x.m))
                 guard == x.m[k]
                 sticky == k > 1
                 up == guard = 1 /\ (sticky \/ kept[1] = 1)
             IN  Reduced(neg, IF up THEN AddBits(kept, <<>>, 1) ELSE kept, x.e + k)

FloatNeg(x) == IF x.m = <<>> THEN x ELSE [x EXCEPT !.neg = ~x.neg]

\* x + y
FloatAdd(x, y) ==
    IF x.m = <<>> THEN y
    ELSE IF y.m = <<>> THEN x
    ELSE LET e == IF x.e < y.e THEN x.e ELSE y.e
             a == Zeros(x.e - e) \o x.m
             b == Zeros(y.e - e) \o y.m
         IN  IF x.neg = y.neg THEN RoundToDouble(x.neg, AddBits(a, b, 0), e)
             ELSE IF LessBits(a, b) THEN RoundToDouble(y.neg, SubBits(b, a), e)
             ELSE RoundToDouble(x.neg, SubBits(a, b), e)

\* x - y
FloatSub(x, y) == FloatAdd(x, FloatNeg(y))

\* x * y
FloatMul(x, y) == RoundToDouble(x.neg # y.neg, MulBits(x.m, y.m), x.e + y.e)

\* the binary digits of a natural number below 2^20
FromNat(k) == StripHigh([i \in 1..20 |-> (k \div (2 ^ (i - 1))) % 2])

\* x / n for a positive integer n below 2^20; the dividend is given enough
\* digits for a quotient of MantissaBits digits and a guard digit, and the
\* remainder of the long division enters the rounding as the lowest digit
FloatDivInt(x, n) ==
    IF x.m = <<>> THEN x
    ELSE LET digits == MantissaBits + 2 + Len(FromNat(n))
             shift == IF Len(x.m) < digits THEN digits - Len(x.m) ELSE 0
             d == DivSmall(Zeros(shift) \o x.m, n)
         IN  RoundToDouble(x.neg, <<IF d.r # 0 THEN 1 ELSE 0>> \o d.q, x.e - shift - 1)

\* x < y
FloatLess(x, y) == FloatSub(x, y).neg

\* Math.max and Math.min of a non-empty array
FloatMax(values) ==
    CHOOSE v \in {values[i] : i \in 1..Len(values)} :
        \A i \in 1..Len(values) : ~FloatLess(v, values[i])
FloatMin(values) ==
    CHOOSE v \in {values[i] : i \in 1..Len(values)} :
        \A i \in 1..Len(values) : ~FloatLess(values[i], v)

\* values.reduce((a, b) => a + b, 0)
RECURSIVE FloatSum(_, _)
FloatSum(values, acc) ==
    IF values = <<>> THEN acc ELSE FloatSum(Tail(values), FloatAdd(acc, Head(values)))

\* BookmakersService.calculateVariance
calculateVariance(values) ==
    IF Len(values) <= 1 THEN FloatZero
    ELSE LET mean == FloatDivInt(FloatSum(values, FloatZero), Len(values))
             squaredDiffs == [i \in 1..Len(values) |->
                                 FloatMul(FloatSub(values[i], mean), FloatSub(values[i], mean))]
         IN  FloatDivInt(FloatSum(squaredDiffs, FloatZero), Len(values))

----------------------------------------------------------------------------
(* Aggregation of quotes: getAggregatedAustralianOdds and its helpers *)

\* the JavaScript number written as the decimal h / 100
Decimal(h) == FloatDivInt([neg |-> FALSE, m |-> FromNat(h), e |-> 0], 100)

\* the prices of fetchOddsFromAPI, in hundredths, and their JavaScript numbers
PriceHundredths ==
    {185, 190, 195, 230, 240, 245, 250, 260, 270, 280, 290, 300, 310, 315, 320, 330,
     340, 350, 400, 410, 420}
PriceOf == [h \in PriceHundredths |-> Decimal(h)]

\* the characters of the market and selection strings of the Australian quotes
Chars(s) ==
    CASE s = "1X2" -> <<"1", "X", "2">>
      [] s = "Sydney Fc" -> <<"S", "y", "d", "n", "e", "y", " ", "F", "c">>
      [] s = "Draw" -> <<"D", "r", "a", "w">>
      [] s = "Melbourne City" -> <<"M", "e", "l", "b", "o", "u", "r", "n", "e", " ", "C", "i", "t", "y">>
      [] s = "Brisbane Roar" -> <<"B", "r", "i", "s", "b", "a", "n", "e", " ", "R", "o", "a", "r">>
      [] s = "Perth Glory" -> <<"P", "e", "r", "t", "h", " ", "G", "l", "o", "r", "y">>
      [] s = "Western Sydney" -> <<"W", "e", "s", "t", "e", "r", "n", " ", "S", "y", "d", "n", "e", "y">>
      [] s = "Adelaide United" -> <<"A", "d", "e", "l", "a", "i", "d", "e", " ", "U", "n", "i", "t", "e", "d">>

\* one processed quote (BookmakerOdds), with the fields aggregation reads
Quote(bookmaker, event, market, selection, h) ==
    [bookmaker |-> bookmaker, event |-> event, market |-> market,
     selection |-> selection, odds |-> PriceOf[h]]

\* the elements of a set of integers in increasing order
SortedSeq(S) ==
    [k \in 1..Cardinality(S) |-> CHOOSE x \in S : Cardinality({y \in S : y < x}) = k - 1]

\* `${odd.market}_${odd.selection}`
MarketKey(odd) == odd.market \o <<"_">> \o odd.selection

\* groupOddsByEventAndMarket, flattened in the order in which
\* Object.entries walks the events and, inside an event, the market keys:
\* the order of first insertion
groupOddsByEventAndMarket(odds) ==
    LET firstOfEvent == {i \in 1..Len(odds) :
                            \A j \in 1..(i - 1) : odds[j].event # odds[i].event}
        firstOfKey(ev) == {i \in 1..Len(odds) :
                            /\ odds[i].event = ev
                            /\ \A j \in 1..(i - 1) :
                                  ~(odds[j].event = ev /\ MarketKey(odds[j]) = MarketKey(odds[i]))}
        rank(i) == Cardinality({j \in firstOfEvent : j <= i})
        firsts == UNION {{<<rank(i), k>> : k \in firstOfKey(odds[i].event)} : i \in firstOfEvent}
        order == [n \in 1..Cardinality(firsts) |->
                    CHOOSE p \in firsts :
                        Cardinality({q \in firsts : q[1] < p[1] \/ (q[1] = p[1] /\ q[2] < p[2])}) = n - 1]
    IN  [n \in 1..Len(order) |->
            LET first == odds[order[n][2]]
            IN  [event |-> first.event,
                 marketKey |-> MarketKey(first),
                 odds |-> SelectSeq(odds, LAMBDA o : o.event = first.event
                                                  /\ MarketKey(o) = MarketKey(first))]]

\* odds.map((o) => o.odds)
OddsValues(odds) == [i \in 1..Len(odds) |-> odds[i].odds]

\* odds.find((o) => o.odds === maxOdds)
FindWithOdds(odds, maxOdds) ==
    odds[CHOOSE i \in 1..Len(odds) :
            /\ odds[i].odds = maxOdds
            /\ \A j \in 1..(i - 1) : odds[j].odds # maxOdds]

\* calculateAggregatedStats: the entry of one group
GroupStats(group) ==
    LET oddsValues == OddsValues(group.odds)
    IN  [event |-> group.event,
         marketKey |-> group.marketKey,
         selection |-> group.odds[1].selection,
         market |-> group.odds[1].market,
         bookmakers |-> [i \in 1..Len(group.odds) |->
                            [name |-> group.odds[i].bookmaker, odds |-> group.odds[i].odds]],
         min |-> FloatMin(oddsValues),
         max |-> FloatMax(oddsValues),
         avg |-> FloatDivInt(FloatSum(oddsValues, FloatZero), Len(oddsValues)),
         variance |-> calculateVariance(oddsValues),
         count |-> Len(oddsValues),
         bestBookmaker |-> FindWithOdds(group.odds, FloatMax(oddsValues)).bookmaker]

\* calculateAggregatedStats
calculateAggregatedStats(eventGroups) ==
    [n \in 1..Len(eventGroups) |-> GroupStats(eventGroups[n])]

\* findBestOdds: the entry pushed for one group
BestOfGroup(group) ==
    LET oddsValues == OddsValues(group.odds)
        maxOdds == FloatMax(oddsValues)
        bestOdd == FindWithOdds(group.odds, maxOdds)
    IN  [event |-> group.event,
         market |-> bestOdd.market,
         selection |-> bestOdd.selection,
         bookmaker |-> bestOdd.bookmaker,
         odds |-> bestOdd.odds,
         advantage |-> FloatSub(maxOdds, FloatMin(oddsValues))]

\* a list left in the order of insertion
KeepInsertionOrder(entries) == entries

\* bestOdds.sort((a, b) => b.advantage - a.advantage): a stable sort, the
\* larger advantage first
SortByAdvantage(entries) ==
    LET before(j, i) ==
            \/ FloatLess(entries[i].advantage, entries[j].advantage)
            \/ (entries[i].advantage = entries[j].advantage /\ j < i)
        position == [i \in 1..Len(entries) |->
                        Cardinality({j \in 1..Len(entries) : before(j, i)}) + 1]
    IN  [k \in 1..Len(entries) |->
            entries[CHOOSE i \in 1..Len(entries) : position[i] = k]]

\* findBestOdds
findBestOdds(eventGroups) ==
    LET bestOdds == [n \in 1..Len(eventGroups) |-> BestOfGroup(eventGroups[n])]
        sorted == SortByAdvantage(bestOdds)
    IN  SubSeq(sorted, 1, IF Len(sorted) < TopN THEN Len(sorted) ELSE TopN)

\* The quote lists given to the aggregation.  A list holds the quotes of the
\* two Australian sources as processOddsData leaves them, in the order of the
\* Map (either source first, a source that returned [] giving none), some
\* selections of the second source carrying the name a configured remote
\* normaliser gave them (here the name in capitals), so that they fall in
\* groups of their own; or it holds the quotes of one group, with any prices.
Sources == <<"Sportsbet", "Tab">>
Events == <<"Sydney FC vs Melbourne City", "Brisbane Roar vs Perth Glory",
            "Western Sydney vs Adelaide United">>
Selections ==
    << <<Chars("Sydney Fc"), Chars("Draw"), Chars("Melbourne City")>>,
       <<Chars("Brisbane Roar"), Chars("Draw"), Chars("Perth Glory")>>,
       <<Chars("Western Sydney"), Chars("Draw"), Chars("Adelaide United")>> >>
Market1X2 == Chars("1X2")

\* the prices of the two sources for the selections of the three events
SourcePrices ==
    << << <<230, 310, 290>>, <<190, 340, 410>>, <<260, 320, 250>> >>,
       << <<240, 300, 280>>, <<195, 330, 400>>, <<270, 315, 245>> >> >>

\* a name in capitals
StrToUpper(s) == [i \in 1..Len(s) |-> CharToUpper(s[i])]

\* the quotes of one source, quote by quote in the order of the data; the
\* quotes at the positions renamed carry the other name
QuotesOfSource(source, renamed) ==
    [k \in 1..(Len(Events) * 3) |->
        LET e == ((k - 1) \div 3) + 1
            i == ((k - 1) % 3) + 1
        IN  Quote(Sources[source], Events[e], Market1X2,
                  IF k \in renamed THEN StrToUpper(Selections[e][i]) ELSE Selections[e][i],
                  SourcePrices[source][e][i])]

\* the quotes of the Map: the sources of order, those of present with quotes
OddsOfSources(order, present, renamed) ==
    LET quotes(source) ==
            IF source \notin present THEN <<>>
            ELSE QuotesOfSource(source, IF source = 2 THEN renamed ELSE {})
    IN  quotes(order[1]) \o quotes(order[2])

\* the quotes of one group: the first selection, the sources in turn
OddsOfPrices(prices) ==
    [i \in 1..Len(prices) |->
        Quote(Sources[((i - 1) % Len(Sources)) + 1], Events[1], Market1X2,
              Selections[1][1], prices[i])]

SourceInputs ==
    {OddsOfSources(order, present, renamed) :
        order \in {<<1, 2>>, <<2, 1>>},
        present \in SUBSET {1, 2},
        renamed \in SUBSET (1..MaxRenamed)}
\* the prices of a group: up to two of any price, or more of the prices of
\* the first event
FirstEventPrices ==
    {SourcePrices[source][1][i] : source \in 1..Len(Sources), i \in 1..3}
PriceInputs ==
    UNION {[1..n -> PriceHundredths] : n \in 0..2}
    \cup UNION {[1..n -> FirstEventPrices] : n \in 0..MaxQuotes}

\* pairs of quotes whose market and selection strings may hold the "_" that
\* the market key is joined with
SeparatorMarkets == {<<"t">>, <<"t", "_", "g">>}
SeparatorSelections == {<<"o">>, <<"g", "_", "o">>}
SeparatorQuotes ==
    {Quote(Sources[s], Events[e], mk, sel, 250) :
        s \in 1..Len(Sources), e \in 1..2,
        mk \in SeparatorMarkets, sel \in SeparatorSelections}
SeparatorInputs == {<<q1, q2>> : q1 \in SeparatorQuotes, q2 \in SeparatorQuotes}

AggregateInputs == SourceInputs \cup SeparatorInputs
GroupInputs == {OddsOfPrices(p) : p \in PriceInputs}

\* no aggregation under way
NoAggregation ==
    [pc |-> "idle", allOdds |-> <<>>, groups |-> <<>>, aggregated |-> <<>>, best |-> <<>>]

\* getAggregatedAustralianOdds once the quotes are collected: grouping,
\* statistics and best-odds opportunities
Aggregate ==
    /\ agg.pc = "start"
    /\ LET eventGroups == groupOddsByEventAndMarket(agg.allOdds)
       IN  agg' = [agg EXCEPT !.pc = "done",
                              !.groups = eventGroups,
                              !.aggregated = calculateAggregatedStats(eventGroups),
                              !.best = findBestOdds(eventGroups)]
    /\ UNCHANGED <<oddsVars, norm, view, auth, acct, aus, retry>>

----------------------------------------------------------------------------
(* The statistics view: getBookmakerStats *)

ConfigNames == {bookmakerConfigs[i].name : i \in 1..Len(bookmakerConfigs)}

\* Math.max(0, x)
MaxZero(x) == IF x < 0 THEN 0 ELSE x

\* the rate-limit status of getBookmakerStats at time t, by configured name
RateLimitStatus(tracker, t) ==
    [name \in ConfigNames |->
        LET config == bookmakerConfigs[CHOOSE i \in 1..Len(bookmakerConfigs) :
                                          bookmakerConfigs[i].name = name]
            recentRequests == SelectRecent(tracker[config.name], t)
        IN  [requestsLastMinute |-> Len(recentRequests),
             limit |-> config.rateLimit,
             available |-> MaxZero(config.rateLimit - Len(recentRequests))]]

\* the admissions checkRateLimit granted, in the 60 seconds ending at t, to
\* requests that resolved to the configuration called name
AdmissionsOf(tracker, name, t) ==
    LET aliases == {n \in Names : GetBookmakerConfig(n) # NoConfig
                                  /\ GetBookmakerConfig(n).name = name}
        counts == [n \in aliases |-> Len(SelectRecent(tracker[n], t))]
        total[S \in SUBSET aliases] ==
            IF S = {} THEN 0
            ELSE LET n == CHOOSE x \in S : TRUE IN counts[n] + total[S \ {n}]
    IN  total[aliases]

\* no view read yet
NoView ==
    [read |-> FALSE, totalBookmakers |-> 0, enabledBookmakers |-> 0,
     rateLimitStatus |-> [name \in ConfigNames |->
                             [requestsLastMinute |-> 0, limit |-> 0, available |-> 0]],
     admitted |-> [name \in ConfigNames |-> 0]]

\* GET /bookmakers/stats: getBookmakerStats.  admitted records, for the
\* properties, the admissions of each source at the time of the read.
ReadStats ==
    /\ ~view.read
    /\ view' = [read |-> TRUE,
                totalBookmakers |-> Len(bookmakerConfigs),
                enabledBookmakers |-> Cardinality(EnabledNames),
                rateLimitStatus |-> RateLimitStatus(rateLimitTracker, now),
                admitted |-> [name \in ConfigNames |->
                                 AdmissionsOf(rateLimitTracker, name, now)]]
    /\ UNCHANGED <<oddsVars, norm, agg, auth, acct, aus, retry>>

----------------------------------------------------------------------------
(* Registration: AuthService.register over UsersService and the user table *)

Emails == {"ann@example.com", "bob@example.com"}
Usernames == {"ann", "bob"}

\* prisma.user.findUnique({ where: { email } }) and ({ where: { username } })
FindByEmail(users, email) == {u \in users : u.email = email}
FindByUsername(users, username) == {u \in users : u.username = username}

\* the email or the username is stored already
Taken(users, email, username) ==
    FindByEmail(users, email) # {} \/ FindByUsername(users, username) # {}

\* How the table answers a write.  Its schema is not part of the sources, so
\* whether it refuses a row is the table's own choice: the write is applied
\* (stored), refused with the known request error P2002, or fails with any
\* other error.
TableOutcomes == {"stored", "P2002", "error"}

\* the catch block of register: a ConflictException is thrown on, any other
\* error becomes an InternalServerErrorException
RegisterCatch(error) == IF error = "conflict" THEN HttpConflict ELSE HttpInternalError

\* One call of register(registerDto).  taken records that the email or the
\* username has been stored ever since the call arrived, refused that the
\* table refused its row (P2002), failed that the table failed on its row
\* for another reason
NewRegister(email, username, taken) ==
    [pc |-> "findByEmail", email |-> email, username |-> username,
     taken |-> taken, refused |-> FALSE, failed |-> FALSE, status |-> 0,
     created |-> FALSE, token |-> FALSE]

\* a call of UsersService.create (kind create), update (kind update) or
\* remove (kind remove) from the users controller
NewUserChange(kind, id, email, username) ==
    [kind |-> kind, id |-> id, email |-> email, username |-> username,
     pc |-> IF kind = "create" THEN "write" ELSE "findById", status |-> 0]

NoAuth == [users |-> {}, regs |-> <<>>, changes |-> <<>>]

\* the ids of the stored users
StoredIds(users) == {u.id : u \in users}

\* the register calls in flight after the table changed to users: a call
\* whose email and username are both free is no longer one of a taken name
AfterChange(regs, users) ==
    [i \in 1..Len(regs) |->
        IF regs[i].pc # "done"
        THEN [regs[i] EXCEPT !.taken = @ /\ Taken(users, regs[i].email, regs[i].username)]
        ELSE regs[i]]

\* POST /auth/register
RegisterStart(email, username) ==
    /\ Len(auth.regs) < MaxRegisters
    /\ auth' = [auth EXCEPT !.regs =
                   Append(@, NewRegister(email, username,
                                         Taken(auth.users, email, username)))]
    /\ UNCHANGED <<oddsVars, norm, agg, view, acct, aus, retry>>

\* the call fails: the catch block decides the status
Failed(r, error) == [r EXCEPT !.pc = "done", !.status = RegisterCatch(error)]

\* await this.usersService.findByEmail(registerDto.email); an error of the
\* table (ok is FALSE) is logged and null is returned
RegisterFindByEmail(i, ok) ==
    /\ i \in 1..Len(auth.regs)
    /\ auth.regs[i].pc = "findByEmail"
    /\ auth' = [auth EXCEPT !.regs[i] =
                   IF ok /\ FindByEmail(auth.users, @.email) # {}
                   THEN Failed(@, "conflict")
                   ELSE [@ EXCEPT !.pc = "findByUsername"]]
    /\ UNCHANGED <<oddsVars, norm, agg, view, acct, aus, retry>>

\* await this.usersService.findByUsername(registerDto.username); an error of
\* the table (ok is FALSE) is logged and null is returned
RegisterFindByUsername(i, ok) ==
    /\ i \in 1..Len(auth.regs)
    /\ auth.regs[i].pc = "findByUsername"
    /\ auth' = [auth EXCEPT !.regs[i] =
                   IF ok /\ FindByUsername(auth.users, @.username) # {}
                   THEN Failed(@, "conflict")
                   ELSE [@ EXCEPT !.pc = "hash"]]
    /\ UNCHANGED <<oddsVars, norm, agg, view, acct, aus, retry>>

\* await bcrypt.hash(registerDto.password, saltRounds)
RegisterHash(i) ==
    /\ i \in 1..Len(auth.regs)
    /\ auth.regs[i].pc = "hash"
    /\ auth' = [auth EXCEPT !.regs[i].pc = "create"]
    /\ UNCHANGED <<oddsVars, norm, agg, view, acct, aus, retry>>

\* The table serves the prisma.user.create of usersService.create.  stored:
\* the row is in the table while register still waits.  P2002: create
\* throws a ConflictException.  error: create throws the error on.  Either
\* exception lands in the catch block of register.
RegisterCreate(i, outcome) ==
    /\ i \in 1..Len(auth.regs)
    /\ auth.regs[i].pc = "create"
    /\ LET r == auth.regs[i]
           users == auth.users \cup {[id |-> i, email |-> r.email, username |-> r.username]}
       IN  CASE outcome = "stored" ->
                  auth' = [auth EXCEPT
                              !.users = users,
                              !.regs = [AfterChange(@, users) EXCEPT
                                           ![i].pc = "created", ![i].created = TRUE]]
             [] outcome = "P2002" ->
                  auth' = [auth EXCEPT !.regs[i] =
                              Failed([r EXCEPT !.refused = TRUE], "conflict")]
             [] outcome = "error" ->
                  auth' = [auth EXCEPT !.regs[i] =
                              Failed([r EXCEPT !.failed = TRUE], "error")]
    /\ UNCHANGED <<oddsVars, norm, agg, view, acct, aus, retry>>

\* await this.usersService.create(...) resolves: register signs the token
\* and returns
RegisterReturns(i) ==
    /\ i \in 1..Len(auth.regs)
    /\ auth.regs[i].pc = "created"
    /\ auth' = [auth EXCEPT !.regs[i] =
                   [@ EXCEPT !.pc = "done", !.status = HttpCreated, !.token = TRUE]]
    /\ UNCHANGED <<oddsVars, norm, agg, view, acct, aus, retry>>

\* POST /users: UsersService.create is called and awaits prisma.user.create
UserCreate(email, username) ==
    /\ Len(auth.changes) < MaxChanges
    /\ auth' = [auth EXCEPT !.changes = Append(@, NewUserChange("create", 0, email, username))]
    /\ UNCHANGED <<oddsVars, norm, agg, view, acct, aus, retry>>

\* PATCH /users/:id, for any id, stored or not: UsersService.update is
\* called and awaits findById
UserUpdate(id, email, username) ==
    /\ Len(auth.changes) < MaxChanges
    /\ auth' = [auth EXCEPT !.changes = Append(@, NewUserChange("update", id, email, username))]
    /\ UNCHANGED <<oddsVars, norm, agg, view, acct, aus, retry>>

\* DELETE /users/:id, for any id, stored or not: UsersService.remove is
\* called and awaits findById
UserRemove(id) ==
    /\ Len(auth.changes) < MaxChanges
    /\ auth' = [auth EXCEPT !.changes = Append(@, NewUserChange("remove", id, "", ""))]
    /\ UNCHANGED <<oddsVars, norm, agg, view, acct, aus, retry>>

\* findById answers a call of update or remove: its error is thrown on when
\* the table failed (ok is FALSE), NotFoundException when no row is stored,
\* else the call goes on to its write
UserChangeFound(j, ok) ==
    /\ j \in 1..Len(auth.changes)
    /\ auth.changes[j].pc = "findById"
    /\ auth' = [auth EXCEPT !.changes[j] =
                   IF ~ok
                   THEN [@ EXCEPT !.pc = "done", !.status = HttpInternalError]
                   ELSE IF @.id \notin StoredIds(auth.users)
                   THEN [@ EXCEPT !.pc = "done", !.status = HttpNotFound]
                   ELSE [@ EXCEPT !.pc = "write"]]
    /\ UNCHANGED <<oddsVars, norm, agg, view, acct, aus, retry>>

\* the table after it served the write of a call, and the status the call
\* ends with: prisma.user.create, prisma.user.update and prisma.user.delete.
\* create and update turn P2002 into a ConflictException; every other error,
\* and the error of a write to a row deleted in between, is thrown on.
UserChangeWrite(users, c, newId, outcome) ==
    CASE outcome = "error" -> [users |-> users, status |-> HttpInternalError]
      [] outcome = "P2002" ->
            [users |-> users,
             status |-> IF c.kind = "remove" THEN HttpInternalError ELSE HttpConflict]
      [] outcome = "stored" /\ c.kind = "create" ->
            [users |-> users \cup {[id |-> newId, email |-> c.email, username |-> c.username]},
             status |-> HttpCreated]
      [] outcome = "stored" /\ c.kind # "create" /\ c.id \notin StoredIds(users) ->
            [users |-> users, status |-> HttpInternalError]
      [] outcome = "stored" /\ c.kind = "update" /\ c.id \in StoredIds(users) ->
            [users |-> {u \in users : u.id # c.id}
                          \cup {[id |-> c.id, email |-> c.email, username |-> c.username]},
             status |-> HttpOk]
      [] outcome = "stored" /\ c.kind = "remove" /\ c.id \in StoredIds(users) ->
            [users |-> {u \in users : u.id # c.id}, status |-> HttpOk]

\* the table serves the write of call j: a write that is applied is in the
\* table while the call still waits; the row of a create gets an id of its
\* own
UserChangeWrites(j, outcome) ==
    /\ j \in 1..Len(auth.changes)
    /\ auth.changes[j].pc = "write"
    /\ LET after == UserChangeWrite(auth.users, auth.changes[j], MaxRegisters + j, outcome)
           applied == after.status \in {HttpCreated, HttpOk}
       IN  auth' = [auth EXCEPT
                       !.users = after.users,
                       !.regs = AfterChange(@, after.users),
                       !.changes[j] = [@ EXCEPT !.pc = IF applied THEN "written" ELSE "done",
                                                !.status = after.status]]
    /\ UNCHANGED <<oddsVars, norm, agg, view, acct, aus, retry>>

\* the await of the write resolves and the call returns
UserChangeReturns(j) ==
    /\ j \in 1..Len(auth.changes)
    /\ auth.changes[j].pc = "written"
    /\ auth' = [auth EXCEPT !.changes[j].pc = "done"]
    /\ UNCHANGED <<oddsVars, norm, agg, view, acct, aus, retry>>

----------------------------------------------------------------------------
(* Accounts: AuthService.login and JwtStrategy.validate over              *)
(* UsersService.deactivate, activate and remove                           *)

UserIds == {"u1"}

\* what findById answers for an id that is not stored (null)
NoUser == [id |-> "", isActive |-> FALSE]

\* a validate that does not look at isActive
validateIgnoringActive(user) ==
    IF user = NoUser THEN HttpUnauthorized ELSE HttpOk

\* JwtStrategy.validate on the row findById returned (NoUser: no such user):
\* UnauthorizedException for no user and for a deactivated one
validate(user) ==
    IF user = NoUser THEN HttpUnauthorized
    ELSE IF ~user.isActive THEN HttpUnauthorized
    ELSE HttpOk

\* prisma.user.findUnique({ where: { id } })
FindById(users, id) ==
    IF id \in DOMAIN users THEN users[id] ELSE NoUser

\* a token signed at login: sub is the user's id; issuedInactive records that
\* the user's row was deactivated when it was signed
NewToken(sub, inactive) ==
    [sub |-> sub, expired |-> FALSE, issuedInactive |-> inactive]

\* a call of AuthService.login with the email of user u, suspended at the
\* findByEmail of validateUser
NewLogin(u) == [user |-> u, pc |-> "findByEmail", status |-> 0]

\* a request carrying token k, suspended at the findById of validate; row is
\* what findById answered, failed records that findById threw, and
\* inactiveSince (activeSince) that the user has been deactivated (active)
\* ever since the request arrived
NewRequest(k, active) ==
    [token |-> k, pc |-> "findById", row |-> NoUser, failed |-> FALSE, status |-> 0,
     inactiveSince |-> ~active, activeSince |-> active]

\* a call of UsersService.update(id, { isActive }) (kind update) or of
\* UsersService.remove(id) (kind remove), suspended at its findById
NewUserCall(kind, id, isActive) ==
    [kind |-> kind, id |-> id, isActive |-> isActive, pc |-> "findById", status |-> 0]

\* the registered users, all active, no login, token, request or call yet
NoAccounts ==
    [users |-> [u \in UserIds |-> [id |-> u, isActive |-> TRUE]],
     logins |-> <<>>, tokens |-> <<>>, reqs |-> <<>>, ops |-> <<>>]

\* POST /auth/login: login calls validateUser, which awaits findByEmail
LoginStart(u) ==
    /\ Len(acct.logins) < MaxTokens
    /\ acct' = [acct EXCEPT !.logins = Append(@, NewLogin(u))]
    /\ UNCHANGED <<oddsVars, norm, agg, view, auth, aus, retry>>

\* findByEmail answers: with a row validateUser awaits bcrypt.compare; with
\* none, or when the table failed (ok is FALSE: findByEmail returns null),
\* validateUser returns null and login throws UnauthorizedException
LoginFound(l, ok) ==
    /\ l \in 1..Len(acct.logins)
    /\ acct.logins[l].pc = "findByEmail"
    /\ acct' = [acct EXCEPT !.logins[l] =
                   IF ok /\ @.user \in DOMAIN acct.users
                   THEN [@ EXCEPT !.pc = "compare"]
                   ELSE [@ EXCEPT !.pc = "done", !.status = HttpUnauthorized]]
    /\ UNCHANGED <<oddsVars, norm, agg, view, auth, aus, retry>>

\* bcrypt.compare answers: on a match validateUser returns the row it read
\* and login signs the token, whether or not the account is active and
\* whether or not the row is still stored; else UnauthorizedException
LoginCompared(l, match) ==
    /\ l \in 1..Len(acct.logins)
    /\ acct.logins[l].pc = "compare"
    /\ LET u == acct.logins[l].user
           row == FindById(acct.users, u)
       IN  acct' = IF match
                   THEN [acct EXCEPT
                            !.tokens = Append(@, NewToken(u, row # NoUser /\ ~row.isActive)),
                            !.logins[l] = [@ EXCEPT !.pc = "done", !.status = HttpOk]]
                   ELSE [acct EXCEPT
                            !.logins[l] = [@ EXCEPT !.pc = "done", !.status = HttpUnauthorized]]
    /\ UNCHANGED <<oddsVars, norm, agg, view, auth, aus, retry>>

\* the expiry time of token k passes
TokenExpires(k) ==
    /\ k \in 1..Len(acct.tokens)
    /\ ~acct.tokens[k].expired
    /\ acct' = [acct EXCEPT !.tokens[k].expired = TRUE]
    /\ UNCHANGED <<oddsVars, norm, agg, view, auth, aus, retry>>

\* the requests in flight of user u after its isActive was written: the
\* history of each is cut
AfterWrite(reqs, tokens, u, isActive) ==
    [i \in 1..Len(reqs) |->
        IF tokens[reqs[i].token].sub = u /\ reqs[i].pc # "done"
        THEN [reqs[i] EXCEPT !.inactiveSince = @ /\ ~isActive,
                             !.activeSince = @ /\ isActive]
        ELSE reqs[i]]

\* the requests in flight of user u after its row was deleted: no active row
\* is stored any more
AfterDelete(reqs, tokens, u) ==
    [i \in 1..Len(reqs) |->
        IF tokens[reqs[i].token].sub = u /\ reqs[i].pc # "done"
        THEN [reqs[i] EXCEPT !.activeSince = FALSE]
        ELSE reqs[i]]

\* PATCH /users/:id/deactivate and /users/:id/activate:
\* UsersService.update(id, { isActive }) is called and awaits findById
SetActive(u, isActive) ==
    /\ Len(acct.ops) < MaxUserCalls
    /\ acct' = [acct EXCEPT !.ops = Append(@, NewUserCall("update", u, isActive))]
    /\ UNCHANGED <<oddsVars, norm, agg, view, auth, aus, retry>>

\* UsersService.deactivate(id)
Deactivate(u) == SetActive(u, FALSE)

\* UsersService.activate(id)
Activate(u) == SetActive(u, TRUE)

\* DELETE /users/:id: UsersService.remove(id) is called and awaits findById
Remove(u) ==
    /\ Len(acct.ops) < MaxUserCalls
    /\ acct' = [acct EXCEPT !.ops = Append(@, NewUserCall("remove", u, FALSE))]
    /\ UNCHANGED <<oddsVars, norm, agg, view, auth, aus, retry>>

\* findById answers a call of update or remove: its error is thrown on when
\* the table failed (ok is FALSE), NotFoundException when no row is stored,
\* else the call goes on to its write
UserCallFound(i, ok) ==
    /\ i \in 1..Len(acct.ops)
    /\ acct.ops[i].pc = "findById"
    /\ acct' = [acct EXCEPT !.ops[i] =
                   IF ~ok
                   THEN [@ EXCEPT !.pc = "done", !.status = HttpInternalError]
                   ELSE IF FindById(acct.users, @.id) = NoUser
                   THEN [@ EXCEPT !.pc = "done", !.status = HttpNotFound]
                   ELSE [@ EXCEPT !.pc = "write"]]
    /\ UNCHANGED <<oddsVars, norm, agg, view, auth, aus, retry>>

\* the table serves prisma.user.update({ where: { id }, data: { isActive } }):
\* the row is written while the call still waits; when the table failed (ok
\* is FALSE) or the row was deleted in between, the error is thrown on and
\* no row changes
UpdateWrites(i, ok) ==
    /\ i \in 1..Len(acct.ops)
    /\ acct.ops[i].pc = "write"
    /\ acct.ops[i].kind = "update"
    /\ LET op == acct.ops[i]
       IN  IF ok /\ op.id \in DOMAIN acct.users
           THEN acct' = [acct EXCEPT
                            !.users[op.id].isActive = op.isActive,
                            !.reqs = AfterWrite(@, acct.tokens, op.id, op.isActive),
                            !.ops[i] = [op EXCEPT !.pc = "written"]]
           ELSE acct' = [acct EXCEPT
                            !.ops[i] = [op EXCEPT !.pc = "done", !.status = HttpInternalError]]
    /\ UNCHANGED <<oddsVars, norm, agg, view, auth, aus, retry>>

\* the table serves prisma.user.delete({ where: { id } }): the row is gone
\* while the call still waits; when the table failed (ok is FALSE) or the row
\* was deleted in between, the error is thrown on and no row changes
RemoveDeletes(i, ok) ==
    /\ i \in 1..Len(acct.ops)
    /\ acct.ops[i].pc = "write"
    /\ acct.ops[i].kind = "remove"
    /\ LET op == acct.ops[i]
       IN  IF ok /\ op.id \in DOMAIN acct.users
           THEN acct' = [acct EXCEPT
                            !.users = [u \in DOMAIN acct.users \ {op.id} |-> acct.users[u]],
                            !.reqs = AfterDelete(@, acct.tokens, op.id),
                            !.ops[i] = [op EXCEPT !.pc = "written"]]
           ELSE acct' = [acct EXCEPT
                            !.ops[i] = [op EXCEPT !.pc = "done", !.status = HttpInternalError]]
    /\ UNCHANGED <<oddsVars, norm, agg, view, auth, aus, retry>>

\* await this.prisma.user.update(...) or delete(...) resolves and the call
\* returns
UserCallReturns(i) ==
    /\ i \in 1..Len(acct.ops)
    /\ acct.ops[i].pc = "written"
    /\ acct' = [acct EXCEPT !.ops[i] = [@ EXCEPT !.pc = "done", !.status = HttpOk]]
    /\ UNCHANGED <<oddsVars, norm, agg, view, auth, aus, retry>>

\* a request with token k arrives at a guarded route: the strategy verifies the
\* token (ignoreExpiration: false) and calls validate, which awaits findById
RequestArrives(k) ==
    /\ k \in 1..Len(acct.tokens)
    /\ Len(acct.reqs) < MaxRequests
    /\ LET r == NewRequest(k, FindById(acct.users, acct.tokens[k].sub).isActive)
       IN  acct' = [acct EXCEPT !.reqs =
                       Append(@, IF acct.tokens[k].expired
                                 THEN [r EXCEPT !.pc = "done", !.status = HttpUnauthorized]
                                 ELSE r)]
    /\ UNCHANGED <<oddsVars, norm, agg, view, auth, aus, retry>>

\* the table serves the findById of validate: the row as stored now, or an
\* error (ok is FALSE), which findById throws on and validate does not
\* catch, so the request ends with an internal error
RequestFound(i, ok) ==
    /\ i \in 1..Len(acct.reqs)
    /\ acct.reqs[i].pc = "findById"
    /\ LET sub == acct.tokens[acct.reqs[i].token].sub
       IN  acct' = [acct EXCEPT !.reqs[i] =
                       IF ok
                       THEN [@ EXCEPT !.pc = "validate", !.row = FindById(acct.users, sub)]
                       ELSE [@ EXCEPT !.pc = "done", !.failed = TRUE,
                                      !.status = HttpInternalError]]
    /\ UNCHANGED <<oddsVars, norm, agg, view, auth, aus, retry>>

\* await this.usersService.findById(payload.sub) resolves and validate
\* decides on the row it was given
RequestValidated(i) ==
    /\ i \in 1..Len(acct.reqs)
    /\ acct.reqs[i].pc = "validate"
    /\ acct' = [acct EXCEPT !.reqs[i].pc = "done",
                            !.reqs[i].status = validate(acct.reqs[i].row)]
    /\ UNCHANGED <<oddsVars, norm, agg, view, auth, aus, retry>>

----------------------------------------------------------------------------
(* getAustralianBookmakerOdds and getAggregatedAustralianOdds *)

\* the enabled configurations among ['sportsbet', 'tab']
AustralianNames ==
    {bookmakerConfigs[i].name : i \in {j \in 1..Len(bookmakerConfigs) :
        bookmakerConfigs[j].enabled /\ bookmakerConfigs[j].name \in {"sportsbet", "tab"}}}

\* a quote of fetchOddsFromBookmaker as the aggregation reads it: the strings
\* by their characters, the price as a JavaScript number
AggregatedQuote(o) == Quote(o.bookmaker, o.event, Chars(o.market), Chars(o.selection), o.odds)

\* oddsMap.forEach((odds) => allOdds.push(...odds)): the quotes in the
\* insertion order of the Map
RECURSIVE AllOddsOf(_, _)
AllOddsOf(results, order) ==
    IF order = <<>> THEN <<>>
    ELSE [i \in 1..Len(results[Head(order)]) |-> AggregatedQuote(results[Head(order)][i])]
            \o AllOddsOf(results, Tail(order))

\* the views returned so far
NoAustralian == [runs |-> <<>>]

\* GET /bookmakers/australian/aggregated, once the previous call was
\* answered: one run per Australian configuration
StartAustralian(sport) ==
    /\ nextId <= MaxRuns
    /\ DOMAIN calls = {}
    /\ calls' = MapSet(calls, nextId, NewCall("australian", AustralianNames, sport, 0))
    /\ nextId' = nextId + 1
    /\ UNCHANGED <<idleVars, failures, now, cacheUp, store, rateLimitTracker, everDown, computeCount,
                   collectLog, wraps>>

\* Promise.allSettled has resolved and getAggregatedAustralianOdds returns:
\* allOdds, the groups, the statistics and the best-odds list
AusAggregates(id) ==
    /\ id \in DOMAIN calls
    /\ calls[id].kind = "australian"
    /\ ~calls[id].returned
    /\ JoinReady(calls[id])
    /\ LET oddsMap == calls[id].results
           allOdds == AllOddsOf(oddsMap, calls[id].order)
           eventGroups == groupOddsByEventAndMarket(allOdds)
       IN  aus' = [aus EXCEPT !.runs =
                      Append(@, [totalBookmakers |-> Cardinality(DOMAIN oddsMap),
                                 totalMarkets |-> Len(allOdds),
                                 bookmakers |-> calls[id].order,
                                 quotes |-> [n \in DOMAIN oddsMap |->
                                               AllOddsOf(oddsMap, <<n>>)],
                                 aggregated |-> calculateAggregatedStats(eventGroups),
                                 best |-> findBestOdds(eventGroups)])]
    /\ calls' = [calls EXCEPT ![id].returned = TRUE]
    /\ UNCHANGED <<norm, agg, view, auth, acct, retry, failures, now, cacheUp, store,
                   rateLimitTracker, nextId, everDown, computeCount, collectLog, wraps>>

----------------------------------------------------------------------------
(* CacheService.withRetry *)

\* the arguments of the calls: retries, delay (ms) and what a successful
\* operation resolves to
RetryCounts == 0..MaxRetries
RetryDelays == {0, 250, 1000}
OperationValues == {"a", "b"}

\* a backoff that grows by delay with every attempt
BackoffLinear(delay, i) == delay * (i + 1)

\* delay * Math.pow(2, i)
Backoff(delay, i) == delay * 2 ^ i

\* no call yet.  i is the loop variable, attempts counts the invocations of
\* operation, waits lists the sleeps in order, error is the attempt whose
\* error was thrown (0: the 'Max retries exceeded' error)
NoRetry ==
    [pc |-> "idle", retries |-> 0, delay |-> 0, i |-> 0, attempts |-> 0,
     waits |-> <<>>, value |-> "none", error |-> -1]

\* the loop test i < retries: the next attempt is invoked, or the loop is
\* left and 'Max retries exceeded' is thrown
LoopTest(r) ==
    IF r.i < r.retries
    THEN [r EXCEPT !.pc = "operation", !.attempts = @ + 1]
    ELSE [r EXCEPT !.pc = "threw", !.error = 0]

\* withRetry(operation, retries, delay) is called
RetryStart(retries, delay) ==
    /\ retry.pc = "idle"
    /\ retry' = LoopTest([NoRetry EXCEPT !.retries = retries, !.delay = delay])
    /\ UNCHANGED <<oddsVars, norm, agg, view, auth, acct, aus>>

\* await operation() resolves: its value is returned
OperationResolves(v) ==
    /\ retry.pc = "operation"
    /\ retry' = [retry EXCEPT !.pc = "returned", !.value = v]
    /\ UNCHANGED <<oddsVars, norm, agg, view, auth, acct, aus>>

\* await operation() rejects: the error is thrown on after the last attempt,
\* else the sleep is started
OperationRejects ==
    /\ retry.pc = "operation"
    /\ retry' = IF retry.i = retry.retries - 1
                THEN [retry EXCEPT !.pc = "threw", !.error = retry.attempts]
                ELSE [retry EXCEPT !.pc = "sleep",
                                   !.waits = Append(@, Backoff(retry.delay, retry.i))]
    /\ UNCHANGED <<oddsVars, norm, agg, view, auth, acct, aus>>

\* the timer of sleep fires: i++ and the loop test
SleepEnds ==
    /\ retry.pc = "sleep"
    /\ retry' = LoopTest([retry EXCEPT !.i = @ + 1])
    /\ UNCHANGED <<oddsVars, norm, agg, view, auth, acct, aus>>

----------------------------------------------------------------------------
(* Specification *)

InitOdds ==
    /\ now = 0
    /\ cacheUp = TRUE
    /\ store = [k \in Keys |-> NoEntry]
    /\ rateLimitTracker = [n \in Names |-> <<>>]
    /\ calls = [x \in {} |-> NewCall("fetch", {}, "football", 0)]
    /\ nextId = 1
    /\ everDown = FALSE
    /\ computeCount = [k \in Keys |-> 0]
    /\ collectLog = <<>>
    /\ wraps = [x \in {} |-> NewWrap(<<"wrap", "k">>, OddsTtlSeconds)]
    /\ failures = 0

Init ==
    /\ InitOdds
    /\ norm = NoNormalization
    /\ agg = NoAggregation
    /\ view = NoView
    /\ auth = NoAuth
    /\ retry = NoRetry
    /\ aus = NoAustralian
    /\ acct = NoAccounts

\* single fetch calls, concurrent, while the cache is read, written and
\* cleared and the store comes and goes
Next ==
    \/ \E n \in RequestNames, s \in Sports : StartFetch(n, s)
    \/ \E id \in 1..MaxCalls, n \in Names : TaskGet(id, n)
    \/ \E id \in 1..MaxCalls, n \in Names : TaskGate(id, n)
    \/ \E id \in 1..MaxCalls, n \in Names : TaskNormalize(id, n)
    \/ \E id \in 1..MaxCalls, n \in Names, ok \in BOOLEAN : TaskFetch(id, n, ok)
    \/ \E id \in 1..MaxCalls, n \in Names : TaskProcess(id, n)
    \/ \E id \in 1..MaxCalls, n \in Names : TaskSet(id, n)
    \/ \E id \in 1..MaxCalls, n \in Names : TaskWritten(id, n)
    \/ \E id \in 1..MaxCalls, n \in Names, found \in BOOLEAN : TaskBookmakers(id, n, found)
    \/ \E id \in 1..MaxCalls, n \in Names : TaskUpdate(id, n)
    \/ \E id \in 1..MaxCalls : Return(id)
    \/ \E id \in 1..MaxCalls : Respond(id)
    \/ \E d \in TimeSteps : Tick(d)
    \/ CacheFails
    \/ CacheRecovers
    \/ \E k \in Keys : CacheDel(k)
    \/ \E available \in BOOLEAN : CacheReset(available)

Spec == Init /\ [][Next]_vars

\* calls of CacheService.wrap, concurrent
NextWrap ==
    \/ \E k \in WrapKeys, ttl \in WrapTtls : StartWrap(k, ttl)
    \/ \E id \in 1..MaxCalls : WrapGet(id)
    \/ \E id \in 1..MaxCalls : WrapGate(id)
    \/ \E id \in 1..MaxCalls, r \in FnOutcomes : WrapFn(id, r)
    \/ \E id \in 1..MaxCalls : WrapSet(id)
    \/ \E id \in 1..MaxCalls : WrapWritten(id)
    \/ \E id \in 1..MaxCalls, r \in FnOutcomes : WrapRetry(id, r)
    \/ \E id \in 1..MaxCalls : WrapRespond(id)
    \/ \E d \in TimeSteps : Tick(d)
    \/ CacheFails
    \/ CacheRecovers
    \/ \E k \in Keys : CacheDel(k)
    \/ \E available \in BOOLEAN : CacheReset(available)

SpecWrap == Init /\ [][NextWrap]_vars

\* fetch calls and calls of wrap over the same cache
NextCache ==
    \/ Next
    \/ \E k \in WrapKeys, ttl \in WrapTtls : StartWrap(k, ttl)
    \/ \E id \in 1..MaxCalls : WrapGet(id)
    \/ \E id \in 1..MaxCalls : WrapGate(id)
    \/ \E id \in 1..MaxCalls, r \in FnOutcomes : WrapFn(id, r)
    \/ \E id \in 1..MaxCalls : WrapSet(id)
    \/ \E id \in 1..MaxCalls : WrapWritten(id)
    \/ \E id \in 1..MaxCalls, r \in FnOutcomes : WrapRetry(id, r)
    \/ \E id \in 1..MaxCalls : WrapRespond(id)

SpecCache == Init /\ [][NextCache]_vars

\* collect calls only, one after the other within the same minute
NextCollect ==
    \/ \E s \in Sports : StartNextCollect(s)
    \/ \E id \in 1..MaxCollects, n \in Names : TaskGet(id, n)
    \/ \E id \in 1..MaxCollects, n \in Names : TaskGate(id, n)
    \/ \E id \in 1..MaxCollects, n \in Names : TaskNormalize(id, n)
    \/ \E id \in 1..MaxCollects, n \in Names, ok \in BOOLEAN : TaskFetch(id, n, ok)
    \/ \E id \in 1..MaxCollects, n \in Names : TaskProcess(id, n)
    \/ \E id \in 1..MaxCollects, n \in Names : TaskSet(id, n)
    \/ \E id \in 1..MaxCollects, n \in Names : TaskWritten(id, n)
    \/ \E id \in 1..MaxCollects, n \in Names, found \in BOOLEAN : TaskBookmakers(id, n, found)
    \/ \E id \in 1..MaxCollects, n \in Names : TaskUpdate(id, n)
    \/ \E id \in 1..MaxCollects : Return(id)
    \/ \E id \in 1..MaxCollects : Respond(id)

SpecCollect == Init /\ [][NextCollect]_vars

\* one call of the normaliser, for every name, with the remote service
\* configured or not
InitNormalize ==
    /\ InitOdds
    /\ norm \in {[NoNormalization EXCEPT !.pc = "start", !.fn = f,
                                         !.originalName = s, !.isEnabled = e] :
                    f \in {"normalizeBookmakerName", "normalizePlayerName"},
                    s \in NameInputs, e \in BOOLEAN}
    /\ agg = NoAggregation
    /\ view = NoView
    /\ auth = NoAuth
    /\ retry = NoRetry
    /\ aus = NoAustralian
    /\ acct = NoAccounts

NextNormalize ==
    \/ NormalizeCall
    \/ \E content \in Replies : RemoteReplies(content)
    \/ \E how \in {"failed", "timeout"} : RemoteFails(how)

SpecNormalize == InitNormalize /\ [][NextNormalize]_vars

\* one aggregation of a quote list of inputs
InitAggregateOf(inputs) ==
    /\ InitOdds
    /\ norm = NoNormalization
    /\ agg \in {[NoAggregation EXCEPT !.pc = "start", !.allOdds = odds] : odds \in inputs}
    /\ view = NoView
    /\ auth = NoAuth
    /\ retry = NoRetry
    /\ aus = NoAustralian
    /\ acct = NoAccounts

\* one aggregation, for every quote list of the two sources
InitAggregate == InitAggregateOf(AggregateInputs)

NextAggregate == Aggregate

SpecAggregate == InitAggregate /\ [][NextAggregate]_vars

\* one aggregation, for every group of quotes with any prices
InitGroup == InitAggregateOf(GroupInputs)

NextGroup == Aggregate

SpecGroup == InitGroup /\ [][NextGroup]_vars

\* single fetches, the clock, and one read of the statistics view
NextStats ==
    \/ \E n \in RequestNames, s \in Sports : StartFetch(n, s)
    \/ \E id \in 1..MaxCalls, n \in Names : TaskGet(id, n)
    \/ \E id \in 1..MaxCalls, n \in Names : TaskGate(id, n)
    \/ \E id \in 1..MaxCalls, n \in Names : TaskNormalize(id, n)
    \/ \E id \in 1..MaxCalls, n \in Names, ok \in BOOLEAN : TaskFetch(id, n, ok)
    \/ \E id \in 1..MaxCalls, n \in Names : TaskProcess(id, n)
    \/ \E id \in 1..MaxCalls, n \in Names : TaskSet(id, n)
    \/ \E id \in 1..MaxCalls, n \in Names : TaskWritten(id, n)
    \/ \E id \in 1..MaxCalls, n \in Names, found \in BOOLEAN : TaskBookmakers(id, n, found)
    \/ \E id \in 1..MaxCalls, n \in Names : TaskUpdate(id, n)
    \/ \E id \in 1..MaxCalls : Return(id)
    \/ \E id \in 1..MaxCalls : Respond(id)
    \/ \E d \in TimeSteps : Tick(d)
    \/ ReadStats

SpecStats == Init /\ [][NextStats]_vars

\* register calls and calls of the users controller, in any interleaving
NextAuth ==
    \/ \E email \in Emails, username \in Usernames : RegisterStart(email, username)
    \/ \E i \in 1..MaxRegisters, ok \in BOOLEAN : RegisterFindByEmail(i, ok)
    \/ \E i \in 1..MaxRegisters, ok \in BOOLEAN : RegisterFindByUsername(i, ok)
    \/ \E i \in 1..MaxRegisters : RegisterHash(i)
    \/ \E i \in 1..MaxRegisters, outcome \in TableOutcomes : RegisterCreate(i, outcome)
    \/ \E i \in 1..MaxRegisters : RegisterReturns(i)
    \/ \E email \in Emails, username \in Usernames : UserCreate(email, username)
    \/ \E id \in 1..(MaxRegisters + MaxChanges), email \in Emails, username \in Usernames :
          UserUpdate(id, email, username)
    \/ \E id \in 1..(MaxRegisters + MaxChanges) : UserRemove(id)
    \/ \E j \in 1..MaxChanges, ok \in BOOLEAN : UserChangeFound(j, ok)
    \/ \E j \in 1..MaxChanges, outcome \in TableOutcomes : UserChangeWrites(j, outcome)
    \/ \E j \in 1..MaxChanges : UserChangeReturns(j)

SpecAuth == Init /\ [][NextAuth]_vars

\* logins, deactivations, activations and authenticated requests, interleaved
NextAccounts ==
    \/ \E u \in UserIds : LoginStart(u)
    \/ \E l \in 1..MaxTokens, ok \in BOOLEAN : LoginFound(l, ok)
    \/ \E l \in 1..MaxTokens, match \in BOOLEAN : LoginCompared(l, match)
    \/ \E k \in 1..MaxTokens : TokenExpires(k)
    \/ \E u \in UserIds : Deactivate(u)
    \/ \E u \in UserIds : Activate(u)
    \/ \E u \in UserIds : Remove(u)
    \/ \E i \in 1..MaxUserCalls, ok \in BOOLEAN : UserCallFound(i, ok)
    \/ \E i \in 1..MaxUserCalls, ok \in BOOLEAN : UpdateWrites(i, ok)
    \/ \E i \in 1..MaxUserCalls, ok \in BOOLEAN : RemoveDeletes(i, ok)
    \/ \E i \in 1..MaxUserCalls : UserCallReturns(i)
    \/ \E k \in 1..MaxTokens : RequestArrives(k)
    \/ \E i \in 1..MaxRequests, ok \in BOOLEAN : RequestFound(i, ok)
    \/ \E i \in 1..MaxRequests : RequestValidated(i)

SpecAccounts == Init /\ [][NextAccounts]_vars

\* calls of the aggregated Australian view, one after the other within the
\* same minute
InitAustralian ==
    /\ InitOdds
    /\ norm = NoNormalization
    /\ agg = NoAggregation
    /\ view = NoView
    /\ auth = NoAuth
    /\ acct = NoAccounts
    /\ retry = NoRetry
    /\ aus = NoAustralian

NextAustralian ==
    \/ \E s \in Sports : StartAustralian(s)
    \/ \E id \in 1..MaxRuns, n \in Names : TaskGet(id, n)
    \/ \E id \in 1..MaxRuns, n \in Names : TaskGate(id, n)
    \/ \E id \in 1..MaxRuns, n \in Names : TaskNormalize(id, n)
    \/ \E id \in 1..MaxRuns, n \in Names, ok \in BOOLEAN : TaskFetch(id, n, ok)
    \/ \E id \in 1..MaxRuns, n \in Names : TaskProcess(id, n)
    \/ \E id \in 1..MaxRuns, n \in Names : TaskSet(id, n)
    \/ \E id \in 1..MaxRuns, n \in Names : TaskWritten(id, n)
    \/ \E id \in 1..MaxRuns, n \in Names, found \in BOOLEAN : TaskBookmakers(id, n, found)
    \/ \E id \in 1..MaxRuns, n \in Names : TaskUpdate(id, n)
    \/ \E id \in 1..MaxRuns : AusAggregates(id)
    \/ \E id \in 1..MaxRuns : Respond(id)

SpecAustralian == InitAustralian /\ [][NextAustralian]_vars

\* one call of withRetry
NextRetry ==
    \/ \E retries \in RetryCounts, delay \in RetryDelays : RetryStart(retries, delay)
    \/ \E v \in OperationValues : OperationResolves(v)
    \/ OperationRejects
    \/ SleepEnds

SpecRetry == Init /\ [][NextRetry]_vars

----------------------------------------------------------------------------
(* Properties *)

\* the runs of fetchOddsFromBookmaker in flight, as <<call id, name>>
Runs == {<<id, n>> \in (DOMAIN calls) \X Names : n \in DOMAIN calls[id].tasks}

CollectCalls == {id \in DOMAIN calls : calls[id].kind = "collect"}

\* the admissions granted to a configuration in the 60 seconds ending at t:
\* the live timestamps of every window whose name resolves to it
RECURSIVE AdmissionsIn(_, _, _)
AdmissionsIn(names, config, t) ==
    IF names = {} THEN 0
    ELSE LET n == CHOOSE x \in names : TRUE
         IN  (IF GetBookmakerConfig(n) = config
              THEN Len(SelectRecent(rateLimitTracker[n], t)) ELSE 0)
             + AdmissionsIn(names \ {n}, config, t)

\* C1: for every source, the admissions granted to it in the trailing 60
\* seconds never exceed its configured limit, after any sequence of fetch and
\* collect calls.
C1_AdmissionsWithinLimit ==
    \A i \in 1..Len(bookmakerConfigs) :
        AdmissionsIn(Names, bookmakerConfigs[i], now) <= bookmakerConfigs[i].rateLimit

\* C2: while the cache is healthy, the computations for one key within the
\* TTL of the first (sequential or concurrent runs alike) number at most one.
C2_ComputedOncePerKey ==
    (~everDown /\ now < OddsTtlSeconds * 1000) =>
        \A k \in Keys : computeCount[k] <= 1

\* C3: when the cache is unavailable (the read or the write is rejected), one
\* call of wrap invokes fn exactly once and resolves with that invocation's
\* value.
C3_WrapComputesOnce ==
    \A id \in DOMAIN wraps :
        LET w == wraps[id]
        IN  (w.pc = "done" /\ (w.readFailed \/ w.writeFailed) /\ ~w.fnThrew) =>
                (w.invoked = 1 /\ w.result = w.value /\ ~w.threw)

\* C4: a fetch whose upstream call and normalisation succeeded returns the
\* fresh quotes even when the cache write fails.
C4_WriteFailureNotSurfaced ==
    \A r \in Runs :
        LET task == calls[r[1]].tasks[r[2]]
        IN  (task.pc = "done" /\ task.odds # <<>>) => task.result = task.odds

\* C5: a run whose cache read returned a value returns that value unchanged,
\* and asks neither the limiter, the upstream nor the normaliser; wrap returns
\* the cached value without invoking fn.
C5_CacheHitReturnsCached ==
    /\ \A r \in Runs :
        LET c == calls[r[1]]
            task == c.tasks[r[2]]
        IN  Truthy(task.cached) =>
                /\ task.pc \in {"gate", "done"}
                /\ ~task.fetched /\ ~task.normalized /\ task.admit = "none"
                /\ task.pc = "done" =>
                      /\ task.result = task.cached.items
                      /\ c.kind = "collect" => c.results[r[2]] = task.cached.items
    /\ \A id \in DOMAIN wraps :
        LET w == wraps[id]
        IN  w.cached # JsNull =>
                /\ w.pc \in {"gate", "done"}
                /\ w.invoked = 0
                /\ w.pc = "done" => (w.result = w.cached /\ ~w.threw)

\* C5 witness: an answered call served from the cache with the stored quotes
C5_Witness ==
    \E r \in Runs :
        LET c == calls[r[1]]
            task == c.tasks[r[2]]
        IN  /\ c.returned
            /\ Truthy(task.cached)
            /\ task.result # <<>>
            /\ task.result = store[OddsKey(r[2], c.sport)].value.items

\* what a settled run contributes on its own account: the cached quotes, the
\* fresh quotes, or nothing
OwnResult(task) ==
    IF Truthy(task.cached) THEN task.cached.items
    ELSE IF task.outcome = "ok" THEN task.odds
    ELSE <<>>

\* C6: in a collect call every source's entry is what that source's own
\* attempt produced (empty when it failed, its quotes otherwise), whatever
\* happened to the other sources; the call has an entry for each settled task
\* and never fails.
C6_FailureIsolated ==
    \A id \in CollectCalls :
        LET c == calls[id]
        IN  \A n \in DOMAIN c.tasks :
                LET task == c.tasks[n]
                IN  /\ n \in DOMAIN c.results <=> task.pc = "done"
                    /\ task.pc = "done" =>
                          /\ c.results[n] = OwnResult(task)
                          /\ task.outcome = "fetchfail" => c.results[n] = <<>>
                          /\ task.outcome = "ok" => Len(c.results[n]) > 0

\* C6 witness: a collect call answered with one source failed (empty) and
\* another with its fresh quotes
C6_Witness ==
    \E id \in CollectCalls :
        LET c == calls[id]
        IN  /\ c.returned
            /\ \E n, m \in DOMAIN c.tasks :
                  /\ c.tasks[n].outcome = "fetchfail" /\ c.results[n] = <<>>
                  /\ c.tasks[m].outcome = "ok" /\ Len(c.results[m]) > 0

\* C7: a collect call returns only once every enabled source's task has
\* settled, with an entry for exactly the enabled sources.
C7_JoinWaitsForAll ==
    \A id \in CollectCalls :
        calls[id].returned =>
            /\ \A n \in EnabledNames :
                  n \in DOMAIN calls[id].tasks /\ calls[id].tasks[n].pc = "done"
            /\ DOMAIN Response(calls[id]) = EnabledNames

\* C7 witness: a collect call answered with one source rate-limited and
\* another served
C7_Witness ==
    \E id \in CollectCalls :
        LET c == calls[id]
        IN  /\ c.returned
            /\ \E n, m \in DOMAIN c.tasks :
                  /\ c.tasks[n].outcome = "denied"
                  /\ c.tasks[m].outcome \in {"ok", "hit"}

\* C8: a run the limiter denied returns an empty sequence and never invokes
\* the upstream.
C8_DeniedSkipsNetwork ==
    \A r \in Runs :
        LET c == calls[r[1]]
            task == c.tasks[r[2]]
        IN  task.admit = "no" =>
                /\ task.pc = "done"
                /\ task.result = <<>>
                /\ ~task.fetched
                /\ c.kind = "collect" => c.results[r[2]] = <<>>

\* C8 witness: an answered fetch that the limiter denied
C8_Witness ==
    \E r \in Runs :
        /\ calls[r[1]].returned
        /\ calls[r[1]].kind = "fetch"
        /\ calls[r[1]].tasks[r[2]].admit = "no"
        /\ Response(calls[r[1]]) = <<>>

\* C9 as stated: the third collect call inside one minute returns an empty
\* sequence for a source whose limit is 2.
C9_ThirdCollectEmpty ==
    \A id \in CollectCalls :
        (calls[id].returned /\ calls[id].nth = 3) =>
            \A n \in EnabledNames :
                GetBookmakerConfig(n).rateLimit = 2 => calls[id].results[n] = <<>>

\* C9 amended: a collect call whose cache read for a source misses while the
\* source's window holds `limit` admissions of the last 60 seconds gets an
\* empty sequence for it, without an upstream call, and every other entry is
\* what that source's own attempt produced.
C9_FullWindowDenied ==
    \A id \in CollectCalls :
        LET c == calls[id]
        IN  \A n \in DOMAIN c.tasks :
                c.tasks[n].seen >= GetBookmakerConfig(n).rateLimit =>
                    /\ c.tasks[n].pc = "done"
                    /\ c.tasks[n].result = <<>>
                    /\ ~c.tasks[n].fetched
                    /\ c.results[n] = <<>>
                    /\ \A m \in DOMAIN c.results : c.results[m] = OwnResult(c.tasks[m])

\* C9 witness: the third collect call of a minute, denied for the source of
\* limit 2 and answered with quotes for the other
C9_Witness ==
    \E id \in CollectCalls :
        LET c == calls[id]
        IN  /\ c.returned /\ c.nth = 3
            /\ \E n, m \in DOMAIN c.tasks :
                  /\ GetBookmakerConfig(n).rateLimit = 2
                  /\ c.tasks[n].seen = 2 /\ c.tasks[n].admit = "no"
                  /\ c.results[n] = <<>>
                  /\ Len(c.results[m]) > 0

UnconfiguredNames == {n \in Names : GetBookmakerConfig(n) = NoConfig}

\* C10: for a name with no configuration the admission check answers false
\* and leaves the table as it is, and a fetch returns an empty sequence
\* without an upstream call.
C10_UnconfiguredFailsClosed ==
    /\ \A n \in UnconfiguredNames :
          /\ CheckRateLimit(n, now, rateLimitTracker).admit = FALSE
          /\ CheckRateLimit(n, now, rateLimitTracker).tracker = rateLimitTracker
          /\ rateLimitTracker[n] = <<>>
    /\ \A r \in Runs :
          LET task == calls[r[1]].tasks[r[2]]
          IN  r[2] \in UnconfiguredNames =>
                  /\ task.pc \in {"get", "gate", "done"}
                  /\ ~task.fetched /\ task.admit = "none"
                  /\ task.pc = "done" => task.result = <<>>

\* C10 witness: an answered fetch for an unconfigured name, while the table
\* holds another name's admission
C10_Witness ==
    \E r \in Runs :
        /\ r[2] \in UnconfiguredNames
        /\ calls[r[1]].returned
        /\ Response(calls[r[1]]) = <<>>
        /\ \E n \in Names : rateLimitTracker[n] # <<>>

\* the limit of the configuration a name resolves to (0: none)
LimitOf(n) ==
    IF GetBookmakerConfig(n) = NoConfig THEN 0 ELSE GetBookmakerConfig(n).rateLimit

\* the window of name n changes in this step
WindowChanges(n) == rateLimitTracker'[n] # rateLimitTracker[n]

\* C23: under any interleaving of fetch and collect calls a window never
\* holds more live timestamps than its name's limit, and a window changes
\* only in the admission check of a run for that very name, which prunes,
\* compares and appends in one step and leaves every other window alone.
C23_AdmissionAtomicPerName ==
    /\ [](\A n \in Names : Len(SelectRecent(rateLimitTracker[n], now)) <= LimitOf(n))
    /\ [][\A n \in Names :
            WindowChanges(n) =>
                /\ \A other \in Names \ {n} : ~WindowChanges(other)
                /\ Len(SelectRecent(rateLimitTracker[n], now)) < LimitOf(n)
                /\ rateLimitTracker'[n] = Append(SelectRecent(rateLimitTracker[n], now), now)
                /\ \E id \in DOMAIN calls :
                      /\ n \in DOMAIN calls[id].tasks
                      /\ calls[id].tasks[n].pc = "gate"
                      /\ calls'[id].tasks[n].admit = "yes"]_vars

\* two calls in flight for one name with a limit of 1: one was admitted and is
\* still fetching, the other was denied on the full window
C23_Witness ==
    \E id1 \in DOMAIN calls, id2 \in DOMAIN calls :
        /\ id1 # id2
        /\ "william_hill" \in DOMAIN calls[id1].tasks
        /\ "william_hill" \in DOMAIN calls[id2].tasks
        /\ calls[id1].tasks["william_hill"].pc = "api"
        /\ calls[id1].tasks["william_hill"].admit = "yes"
        /\ calls[id2].tasks["william_hill"].admit = "no"
        /\ calls[id2].tasks["william_hill"].seen = LimitWilliamHill
        /\ Len(rateLimitTracker["william_hill"]) = LimitWilliamHill

\* the timestamps of a window that are not older than 60,000 ms at time t
NotOlder(requests, t) == {i \in 1..Len(requests) : t - requests[i] <= WindowMs}

\* C24: an admission check keeps every timestamp that is not strictly older
\* than 60,000 ms, one aged exactly 60,000 ms included, and admits if and
\* only if the timestamps kept are fewer than the limit.
C24_BoundaryTimestampCounts ==
    [][\A id \in DOMAIN calls : \A n \in DOMAIN calls[id].tasks :
          ( /\ id \in DOMAIN calls'
            /\ calls[id].tasks[n].pc = "gate"
            /\ calls'[id].tasks[n].admit # "none" ) =>
              LET kept == Cardinality(NotOlder(rateLimitTracker[n], now))
              IN  /\ calls'[id].tasks[n].admit = "yes" <=> kept < LimitOf(n)
                  /\ calls'[id].tasks[n].admit = "yes" =>
                        Len(rateLimitTracker'[n]) = kept + 1]_vars

\* the names of the model that getBookmakerConfig resolves to a configuration
SpellingsOf(config) == {n \in Names : GetBookmakerConfig(n) = config}

\* C28: the requests whose names resolve to one configuration are counted in
\* one window, whichever spelling they used: at most one of the spellings
\* has timestamps, and the live timestamps of the configuration never
\* exceed its limit.
C28_OneWindowPerConfiguration ==
    \A i \in 1..Len(bookmakerConfigs) :
        LET spellings == SpellingsOf(bookmakerConfigs[i])
        IN  /\ Cardinality({n \in spellings : rateLimitTracker[n] # <<>>}) <= 1
            /\ AdmissionsIn(spellings, bookmakerConfigs[i], now)
                   <= bookmakerConfigs[i].rateLimit

\* C29: the step in which a run is served from the cache leaves every rate
\* window as it was, and a window changes only in the admission check of a
\* run whose cache read returned nothing.
C29_CacheHitLeavesWindows ==
    [][ /\ \A id \in (DOMAIN calls) \cap (DOMAIN calls') :
              \A n \in DOMAIN calls[id].tasks :
                  ( /\ calls[id].tasks[n].outcome # "hit"
                    /\ calls'[id].tasks[n].outcome = "hit" )
                  => rateLimitTracker' = rateLimitTracker
        /\ rateLimitTracker' # rateLimitTracker =>
              \E id \in (DOMAIN calls) \cap (DOMAIN calls') :
                  \E n \in DOMAIN calls[id].tasks :
                      /\ calls[id].tasks[n].pc = "gate"
                      /\ ~Truthy(calls[id].tasks[n].cached)
                      /\ calls'[id].tasks[n].admit = "yes"
                      /\ WindowChanges(n) ]_vars

\* a second fetch of a name was served from the cache that the first fetch
\* filled: the window still holds the one timestamp of the first
C29_Witness ==
    \E r1 \in Runs, r2 \in Runs :
        /\ r1[1] # r2[1] /\ r1[2] = r2[2]
        /\ calls[r1[1]].tasks[r1[2]].outcome = "ok"
        /\ calls[r2[1]].tasks[r2[2]].outcome = "hit"
        /\ calls[r2[1]].tasks[r2[2]].admit = "none"
        /\ Len(rateLimitTracker[r1[2]]) = 1

\* items is what a successful fetch for bookmakerName returns: one quote per
\* selection of the upstream data, in order, each stamped when it was pushed
IsFetchOf(items, bookmakerName) ==
    /\ Len(items) = Len(RawOdds(bookmakerName))
    /\ \A i \in 1..Len(items) :
          /\ items[i] = ProcessedQuote(RawOdds(bookmakerName)[i],
                                       Normalize(bookmakerName).normalizedName,
                                       items[i].timestamp)
          /\ items[i].timestamp <= now
          /\ i > 1 => items[i - 1].timestamp <= items[i].timestamp

\* C30: every cached odds entry is the non-empty quote list of a successful
\* fetch for its key's source; an entry is written only by the run of an
\* admitted, successful fetch for that key (other changes of an entry are
\* deletions), and the step that ends a run as unconfigured, rate-limited or
\* failed leaves the cache unchanged.
C30_CacheHoldsSuccessfulFetches ==
    /\ [](\A n \in Names, s \in Sports :
            LET entry == store[OddsKey(n, s)]
            IN  entry.present =>
                  /\ entry.value.type = "array"
                  /\ entry.value.items # <<>>
                  /\ GetBookmakerConfig(n) # NoConfig
                  /\ computeCount[OddsKey(n, s)] >= 1
                  /\ IsFetchOf(entry.value.items, n))
    /\ [][  /\ \A n \in Names, s \in Sports :
                ( /\ store'[OddsKey(n, s)] # store[OddsKey(n, s)]
                  /\ store'[OddsKey(n, s)].present ) =>
                    \E id \in DOMAIN calls :
                        /\ n \in DOMAIN calls[id].tasks
                        /\ calls[id].sport = s
                        /\ calls[id].tasks[n].pc = "set"
                        /\ calls[id].tasks[n].admit = "yes"
                        /\ calls[id].tasks[n].fetched
                        /\ store'[OddsKey(n, s)].value = JsArray(calls[id].tasks[n].odds)
            /\ \A id \in (DOMAIN calls) \cap (DOMAIN calls') :
                  \A n \in DOMAIN calls[id].tasks :
                      ( /\ calls[id].tasks[n].pc # "done"
                        /\ calls'[id].tasks[n].pc = "done"
                        /\ calls'[id].tasks[n].outcome \in {"noconfig", "denied", "fetchfail"} )
                      => store' = store ]_vars

\* a fetch was denied while the admitted fetch of the same name was under
\* way; the admitted one then cached its quotes, which it had stamped at
\* different times
C30_Witness ==
    \E r1 \in Runs, r2 \in Runs :
        /\ r1[1] # r2[1] /\ r1[2] = r2[2]
        /\ calls[r1[1]].tasks[r1[2]].outcome = "ok"
        /\ calls[r2[1]].tasks[r2[2]].outcome = "denied"
        /\ calls[r2[1]].tasks[r2[2]].result = <<>>
        /\ store[OddsKey(r1[2], calls[r1[1]].sport)].present
        /\ store[OddsKey(r1[2], calls[r1[1]].sport)].value
              = JsArray(calls[r1[1]].tasks[r1[2]].result)
        /\ \E i \in 1..Len(calls[r1[1]].tasks[r1[2]].result) :
              calls[r1[1]].tasks[r1[2]].result[i].timestamp
                 # calls[r1[1]].tasks[r1[2]].result[1].timestamp

----------------------------------------------------------------------------
(* Properties of the name normaliser (SpecNormalize) *)

\* the call has returned along a path that ends in the fallback rules
FallbackPaths == {"unconfigured", "failed", "timeout", "nocontent"}
ViaFallback == norm.pc = "done" /\ norm.path \in FallbackPaths

\* the input after trim, toLowerCase and the two replacements
Cleaned(originalName) == CollapseSpace(ReplaceSpecial(StrToLower(Trim(originalName))))

\* C11: for every non-empty input string the fallback normalisation returns
\* a normalizedName that is a non-empty string.
C11_FallbackNameNonEmpty ==
    (ViaFallback /\ norm.originalName # <<>>)
        => (~norm.threw /\ norm.result.normalizedName # <<>>)

\* C12: every result of normalizeBookmakerName / normalizePlayerName, on the
\* remote path with any reply and on the fallback path, has a confidence in
\* [0, 1] (0..100 hundredths).
C12_ConfidenceInUnitInterval ==
    norm.pc = "done" => (norm.result.confidence >= 0 /\ norm.result.confidence <= 100)

\* C13: in the fallback normalisation, when the cleaned lower-cased input
\* includes a key of the alias table, the returned name is exactly the value
\* of the first such key in table order; "bet365" gives "Bet365" and
\* "Paddy  Power!!" gives "Paddy Power".
C13_FirstAliasWins ==
    ViaFallback =>
        /\ \A i \in 1..Len(bookmakerMappings) :
              ( /\ Includes(Cleaned(norm.originalName), bookmakerMappings[i].key)
                /\ \A j \in 1..(i - 1) :
                      ~Includes(Cleaned(norm.originalName), bookmakerMappings[j].key) )
              => norm.result.normalizedName = bookmakerMappings[i].value
        /\ norm.originalName = <<"b", "e", "t", "3", "6", "5">>
              => norm.result.normalizedName = <<"B", "e", "t", "3", "6", "5">>
        /\ norm.originalName = <<"P", "a", "d", "d", "y", " ", " ", "P", "o", "w", "e", "r", "!", "!">>
              => norm.result.normalizedName = <<"P", "a", "d", "d", "y", " ", "P", "o", "w", "e", "r">>

\* a fallback call returned for a name that includes two keys of the table,
\* the later one first in the name
C13_Witness ==
    /\ ViaFallback
    /\ norm.originalName = <<"b", "e", "t", "w", "a", "y", " ", "c", "o", "r", "a", "l">>
    /\ norm.result.normalizedName = <<"C", "o", "r", "a", "l">>

\* C14: when the remote service is not configured, or its call fails, times
\* out or returns no content, the call does not throw and returns exactly
\* the result of the fallback rules for the same input.
C14_RemoteErrorFallsBack ==
    ViaFallback =>
        /\ ~norm.threw
        /\ norm.result = fallbackNormalization(norm.originalName)
        /\ norm.result.confidence = FallbackConfidence

\* a call with the remote service configured whose remote call timed out
C14_Witness ==
    /\ norm.pc = "done"
    /\ norm.isEnabled
    /\ norm.path = "timeout"
    /\ norm.originalName = <<"S", "k", "y", "-", "B", "e", "t">>
    /\ norm.result.normalizedName = <<"S", "k", "y", " ", "B", "e", "t">>

\* a letter or a digit
IsAlnum(c) ==
    IndexOf(c, LowerLetters) > 0 \/ IndexOf(c, UpperLetters) > 0 \/ IndexOf(c, Digits) > 0

\* C25: when no alias matches, the fallback output holds only letters, digits
\* and single spaces, every token starting with a capital or a digit and
\* lower-case after it: every other character, the underscore included, has
\* become a space, so "william_hill" is read as "william" and "hill".
C25_OnlyAlnumAndSpaces ==
    ViaFallback =>
        LET out == norm.result.normalizedName
        IN  /\ MatchingKeys(StrToLower(out)) = {} =>
                  \A i \in 1..Len(out) :
                      /\ IsAlnum(out[i]) \/ out[i] = " "
                      /\ (i > 1 /\ out[i] = " ") => out[i - 1] # " "
                      /\ (i = 1 \/ out[i - 1] = " ") => IndexOf(out[i], LowerLetters) = 0
                      /\ (i > 1 /\ out[i - 1] # " ") => IndexOf(out[i], UpperLetters) = 0
            /\ norm.originalName = <<"w", "i", "l", "l", "i", "a", "m", "_", "h", "i", "l", "l">>
                  => out = <<"W", "i", "l", "l", "i", "a", "m", " ", "H", "i", "l", "l">>

----------------------------------------------------------------------------
(* Properties of the aggregation (SpecAggregate) *)

\* the group an entry of the best-odds list was made from
GroupsOf(entry) ==
    {n \in 1..Len(agg.groups) :
        /\ agg.groups[n].event = entry.event
        /\ agg.groups[n].marketKey = entry.market \o <<"_">> \o entry.selection}

\* the sources whose quotes a group holds
SourcesOf(group) == {group.odds[i].bookmaker : i \in 1..Len(group.odds)}

\* C15: the arbitrage list has an entry only for groups that hold quotes
\* from at least 2 sources; a group with a single quote gives no entry.
C15_EntriesNeedTwoSources ==
    agg.pc = "done" =>
        \A k \in 1..Len(agg.best) : \A n \in GroupsOf(agg.best[k]) :
            /\ Len(agg.groups[n].odds) >= 2
            /\ Cardinality(SourcesOf(agg.groups[n])) >= 2

\* the entries of every group, before the sort and the truncation
AllEntries == [n \in 1..Len(agg.groups) |-> BestOfGroup(agg.groups[n])]

\* C16: the arbitrage list has at most 10 entries, its advantages are in
\* non-increasing order, and every entry left out has an advantage no
\* greater than that of every entry kept.
C16_TopTenByAdvantage ==
    agg.pc = "done" =>
        /\ Len(agg.best) <= 10
        /\ Len(agg.best) = (IF Len(AllEntries) < 10 THEN Len(AllEntries) ELSE 10)
        /\ \A k \in 1..Len(agg.best) : \E n \in 1..Len(AllEntries) : AllEntries[n] = agg.best[k]
        /\ \A k \in 1..(Len(agg.best) - 1) :
              ~FloatLess(agg.best[k].advantage, agg.best[k + 1].advantage)
        /\ \A n \in 1..Len(AllEntries) :
              (\A k \in 1..Len(agg.best) : agg.best[k] # AllEntries[n])
                  => \A k \in 1..Len(agg.best) :
                        ~FloatLess(agg.best[k].advantage, AllEntries[n].advantage)

\* an aggregation of more than 10 groups whose list was cut, the entry left
\* out being one inserted before an entry of a strictly larger advantage
C16_Witness ==
    /\ agg.pc = "done"
    /\ Len(agg.groups) > TopN
    /\ Len(agg.best) = TopN
    /\ \E n \in 1..Len(AllEntries) :
          /\ \A k \in 1..Len(agg.best) : agg.best[k] # AllEntries[n]
          /\ \E m \in (n + 1)..Len(AllEntries) :
                /\ FloatLess(AllEntries[n].advantage, AllEntries[m].advantage)
                /\ \E k \in 1..Len(agg.best) : agg.best[k] = AllEntries[m]
    /\ FloatLess(agg.best[TopN].advantage, agg.best[1].advantage)

\* C17: the variance of every group is >= 0, and it is 0 if and only if the
\* group has at most 1 member or all members have the same price.
C17_VarianceZeroIffUniform ==
    agg.pc = "done" =>
        \A n \in 1..Len(agg.aggregated) :
            LET st == agg.aggregated[n]
                prices == {st.bookmakers[i].odds : i \in 1..Len(st.bookmakers)}
            IN  /\ ~st.variance.neg
                /\ (st.variance = FloatZero) <=> (st.count <= 1 \/ Cardinality(prices) <= 1)

\* C18: two sources reporting one (event, market, selection) at 2.5 and 2.8
\* give min = 2.5, max = 2.8, mean = 2.65, variance = 0.0225, count = 2 and
\* exactly one arbitrage entry, with advantage 0.3 and the source and price
\* of the 2.8 reporter.
C18_TwoSourceScenario ==
    (agg.pc = "done" /\ agg.allOdds = OddsOfPrices(<<250, 280>>)) =>
        /\ Len(agg.aggregated) = 1
        /\ agg.aggregated[1].min = Decimal(250)
        /\ agg.aggregated[1].max = Decimal(280)
        /\ agg.aggregated[1].avg = Decimal(265)
        /\ agg.aggregated[1].variance
              = FloatDivInt([neg |-> FALSE, m |-> FromNat(225), e |-> 0], 10000)
        /\ agg.aggregated[1].count = 2
        /\ Len(agg.best) = 1
        /\ agg.best[1].advantage = Decimal(30)
        /\ agg.best[1].bookmaker = Sources[2]
        /\ agg.best[1].odds = Decimal(280)

\* the (event, market, selection) triple of a quote
Triple(o) == <<o.event, o.market, o.selection>>

\* the quotes of group n, as a set
Members(n) == {agg.groups[n].odds[i] : i \in 1..Len(agg.groups[n].odds)}

\* C22: every group holds only quotes of one (event, market, selection)
\* triple, every quote is in a group, and two quotes of one triple are in the
\* same group, whatever characters the strings hold.
C22_GroupsShareTriple ==
    agg.pc = "done" =>
        /\ \A n \in 1..Len(agg.groups) :
              \A o1 \in Members(n), o2 \in Members(n) : Triple(o1) = Triple(o2)
        /\ \A i \in 1..Len(agg.allOdds) :
              \E n \in 1..Len(agg.groups) : agg.allOdds[i] \in Members(n)
        /\ \A i \in 1..Len(agg.allOdds), j \in 1..Len(agg.allOdds) :
              Triple(agg.allOdds[i]) = Triple(agg.allOdds[j]) =>
                  \A n \in 1..Len(agg.groups) :
                      agg.allOdds[i] \in Members(n) <=> agg.allOdds[j] \in Members(n)

----------------------------------------------------------------------------
(* Properties of the statistics view (SpecStats) *)

\* C19: the view reports for every configured source requestsLastMinute
\* equal to the admissions granted for that source in the trailing 60
\* seconds, and available = max(0, limit - requestsLastMinute); reading the
\* view changes no rate window.
C19_ViewCountsAdmissions ==
    view.read =>
        \A name \in ConfigNames :
            /\ view.rateLimitStatus[name].requestsLastMinute = view.admitted[name]
            /\ view.rateLimitStatus[name].available
                  = MaxZero(view.rateLimitStatus[name].limit
                              - view.rateLimitStatus[name].requestsLastMinute)

----------------------------------------------------------------------------
(* Properties of the registration (SpecAuth) *)

\* no two stored users share an email or a username
UsersUnique ==
    \A u1 \in auth.users, u2 \in auth.users :
        (u1.email = u2.email \/ u1.username = u2.username) => u1 = u2

\* C20: after any interleaving of register calls no two stored users share
\* an email or a username; a register whose email or username is already
\* taken fails with a conflict (409), creates no user and returns no token.
C20_RegisterKeepsUsersUnique ==
    /\ UsersUnique
    /\ \A i \in 1..Len(auth.regs) :
          LET r == auth.regs[i]
          IN  (r.pc = "done" /\ r.taken) =>
                (r.status = HttpConflict /\ ~r.created /\ ~r.token)

----------------------------------------------------------------------------
(* Properties of the accounts (SpecAccounts) *)

\* C21: a request made with a token of a user who has been deactivated ever
\* since the request arrived is rejected as unauthorized, whenever the token
\* was issued; a request with an unexpired token of a user who has been
\* active ever since it arrived is accepted, also after a deactivation and
\* an activation.
C21_DeactivatedTokensRejected ==
    \A i \in 1..Len(acct.reqs) :
        LET r == acct.reqs[i]
        IN  r.pc = "done" =>
              /\ r.status \in {HttpOk, HttpUnauthorized}
              /\ r.inactiveSince => r.status = HttpUnauthorized
              /\ (r.activeSince /\ ~acct.tokens[r.token].expired) => r.status = HttpOk

\* C21, amended: a request made with a token of a user who has been
\* deactivated ever since the request arrived is never accepted, whenever
\* the token was issued: it is rejected as unauthorized when validate could
\* read the user's row and with an internal error when the read failed; a
\* request with an unexpired token of a user who has been active ever since
\* it arrived is accepted unless the read failed.
C21_DeactivatedTokensNeverAccepted ==
    \A i \in 1..Len(acct.reqs) :
        LET r == acct.reqs[i]
        IN  r.pc = "done" =>
              /\ r.status \in {HttpOk, HttpUnauthorized, HttpInternalError}
              /\ r.status = HttpInternalError <=> r.failed
              /\ r.inactiveSince => r.status # HttpOk
              /\ (r.inactiveSince /\ ~r.failed) => r.status = HttpUnauthorized
              /\ (r.activeSince /\ ~acct.tokens[r.token].expired /\ ~r.failed)
                    => r.status = HttpOk

\* a token signed while its user was deactivated was rejected in a request
\* made during the deactivation and accepted in a later one, made after the
\* activation
C21_Witness ==
    \E i \in 1..Len(acct.reqs), j \in 1..Len(acct.reqs) :
        /\ i < j
        /\ acct.reqs[i].token = acct.reqs[j].token
        /\ acct.tokens[acct.reqs[i].token].issuedInactive
        /\ acct.reqs[i].pc = "done" /\ acct.reqs[i].inactiveSince
        /\ acct.reqs[i].status = HttpUnauthorized
        /\ acct.reqs[j].pc = "done" /\ acct.reqs[j].activeSince
        /\ acct.reqs[j].status = HttpOk

----------------------------------------------------------------------------
(* Properties of the Australian view (SpecAustralian) *)

\* the source reported as best for each group, in the statistics and in the
\* best-odds list
BestSources(run) ==
    <<[i \in 1..Len(run.aggregated) |-> run.aggregated[i].bestBookmaker],
      [i \in 1..Len(run.best) |-> run.best[i].bookmaker]>>

\* C26: two runs over the same upstream data give the same view, and in
\* particular report the same best source for every group, also when two
\* quotes tie, whatever the order in which the sources' fetches completed.
C26_SameViewOnEveryRun ==
    \A r1 \in 1..Len(aus.runs), r2 \in 1..Len(aus.runs) :
        aus.runs[r1].quotes = aus.runs[r2].quotes =>
            /\ BestSources(aus.runs[r1]) = BestSources(aus.runs[r2])
            /\ aus.runs[r1].aggregated = aus.runs[r2].aggregated
            /\ aus.runs[r1].bookmakers = aus.runs[r2].bookmakers

----------------------------------------------------------------------------
(* Properties of withRetry (SpecRetry) *)

\* C27: operation is invoked at most retries times; the k-th sleep lasts
\* delay * 2^(k-1); a resolved attempt ends the call with its value and one
\* sleep before each attempt but the first; after retries failed attempts
\* the error of the last attempt is thrown, with no sleep after it.
C27_ExponentialBackoff ==
    /\ retry.attempts <= retry.retries
    /\ \A k \in 1..Len(retry.waits) : retry.waits[k] = retry.delay * 2 ^ (k - 1)
    /\ retry.pc = "operation" => Len(retry.waits) = retry.attempts - 1
    /\ retry.pc = "sleep" => Len(retry.waits) = retry.attempts
    /\ retry.pc = "returned" =>
          (retry.value \in OperationValues /\ Len(retry.waits) = retry.attempts - 1)
    /\ (retry.pc = "threw" /\ retry.retries >= 1) =>
          /\ retry.attempts = retry.retries
          /\ retry.error = retry.retries
          /\ Len(retry.waits) = retry.retries - 1
    /\ (retry.pc = "threw" /\ retry.retries = 0) => retry.attempts = 0

\* three attempts failed and the fourth resolved, after sleeps of 250, 500
\* and 1000 ms
C27_Witness ==
    /\ retry.pc = "returned"
    /\ retry.delay = 250
    /\ retry.attempts = 4
    /\ retry.waits = <<250, 500, 1000>>

====
